---- MODULE Spec2Model ----
(***************************************************************************)
(* Workout diary: the createWorkout server action and data helper, the     *)
(* store they write (workouts, exercises, workout_exercises, sets), and    *)
(* the two read paths (dashboard page / getUserWorkoutsForDate, edit page  *)
(* / getUserWorkoutById).                                                  *)
(*                                                                         *)
(* Time: an instant (a JS Date) is an integer number of milliseconds since *)
(* the model epoch 2025-08-30T00:00:00.000Z; tz is the UTC offset, in      *)
(* minutes east of UTC, of the process that evaluates the Date methods.    *)
(* Weight: a JS number is an integer number of thousandths of a kilogram;  *)
(* the decimal(10,2) column holds an integer number of hundredths.         *)
(* An optional value is a sequence of length at most one.                  *)
(***************************************************************************)
EXTENDS Integers, Sequences, FiniteSets, TLC

VARIABLES
    tz,                \* UTC offset (minutes) of the evaluating process
    workouts,          \* table workouts
    exercises,         \* table exercises (the catalog)
    workoutExercises,  \* table workout_exercises
    sets,              \* table sets
    call,              \* the server action invocation in progress or last returned
    calls,             \* number of server action invocations started
    failures,          \* number of store statements that have failed
    lastRead,          \* the page request served last, if it was the last operation
    form               \* the browser: the page shown and the workout form's state

vars ==
    <<tz, workouts, exercises, workoutExercises, sets, call, calls, failures, lastRead,
      form>>

store == <<workouts, exercises, workoutExercises, sets>>

----------------------------------------------------------------------------
(* Bounds *)

MaxCalls == 2
MaxFailures == 1

----------------------------------------------------------------------------
(* Optional values *)

Absent == <<>>
Some(v) == <<v>>
IsSome(o) == Len(o) = 1
Get(o) == o[1]

----------------------------------------------------------------------------
(* Dates *)

MsPerMinute == 60 * 1000
MsPerHour == 60 * MsPerMinute
MsPerDay == 24 * MsPerHour

\* Days since 1970-01-01 of a civil date (proleptic Gregorian calendar).
DaysFromCivil(y, m, d) ==
    LET yy  == IF m <= 2 THEN y - 1 ELSE y
        era == yy \div 400
        yoe == yy - era * 400
        mp  == IF m > 2 THEN m - 3 ELSE m + 9
        doy == (153 * mp + 2) \div 5 + d - 1
        doe == yoe * 365 + yoe \div 4 - yoe \div 100 + doy
    IN  era * 146097 + doe - 719468

EpochDay == DaysFromCivil(2025, 8, 30)

\* new Date("YYYY-MM-DD"): a date-only string is read as midnight UTC.
ParseDateOnly(s) == (DaysFromCivil(s.year, s.month, s.day) - EpochDay) * MsPerDay

\* new Date(y, m - 1, d, 0, 0, 0, ms): a local wall-clock time in the
\* evaluating process's zone.
LocalDateTime(s, ms) == ParseDateOnly(s) + ms - tz * MsPerMinute

\* Number of the local calendar day an instant falls on.
LocalDay(t) == (t + tz * MsPerMinute) \div MsPerDay

\* Date.prototype.setHours(h, m, s, ms) on a copy of t: same local calendar
\* day, the given local time of day.
SetHours(t, h, m, s, ms) ==
    LocalDay(t) * MsPerDay + h * MsPerHour + m * MsPerMinute + s * 1000 + ms
        - tz * MsPerMinute

startOfDay(date) == SetHours(date, 0, 0, 0, 0)

endOfDay(date) == SetHours(date, 23, 59, 59, 999)

\* The civil date (proleptic Gregorian calendar) of a number of days since
\* 1970-01-01.
CivilFromDays(z) ==
    LET zz  == z + 719468
        era == zz \div 146097
        doe == zz - era * 146097
        yoe == (doe - doe \div 1460 + doe \div 36524 - doe \div 146096) \div 365
        doy == doe - (365 * yoe + yoe \div 4 - yoe \div 100)
        mp  == (5 * doy + 2) \div 153
        d   == doy - (153 * mp + 2) \div 5 + 1
        m   == IF mp < 10 THEN mp + 3 ELSE mp - 9
    IN  [year |-> IF m <= 2 THEN yoe + era * 400 + 1 ELSE yoe + era * 400,
         month |-> m, day |-> d]

\* The local calendar date of an instant, as date-fns format reads it.
LocalCivil(t) == CivilFromDays(EpochDay + LocalDay(t))

\* date-fns format token MMM
MonthShort(m) ==
    CASE m = 1 -> "Jan" [] m = 2 -> "Feb" [] m = 3 -> "Mar" [] m = 4 -> "Apr"
      [] m = 5 -> "May" [] m = 6 -> "Jun" [] m = 7 -> "Jul" [] m = 8 -> "Aug"
      [] m = 9 -> "Sep" [] m = 10 -> "Oct" [] m = 11 -> "Nov" [] m = 12 -> "Dec"

\* The suffix chosen by the last digit alone.
getOrdinalSuffix_LastDigit(day) ==
    CASE day % 10 = 1 -> "st"
      [] day % 10 = 2 -> "nd"
      [] day % 10 = 3 -> "rd"
      [] OTHER -> "th"

getOrdinalSuffix(day) ==
    IF day > 3 /\ day < 21 THEN "th"
    ELSE CASE day % 10 = 1 -> "st"
           [] day % 10 = 2 -> "nd"
           [] day % 10 = 3 -> "rd"
           [] OTHER -> "th"

\* The text `${day}${ordinal} ${format(date, 'MMM yyyy')}`, as the sequence
\* of its parts.
formatDate(date) ==
    LET c == LocalCivil(date)
        day == c.day
        ordinal == getOrdinalSuffix(day)
    IN  <<day, ordinal, " ", MonthShort(c.month), " ", c.year>>

----------------------------------------------------------------------------
(* Column conversions *)

\* set.weight?.toString() written to decimal(10,2): the number is rounded
\* to two fractional digits, half away from zero.
WeightToColumn(w) == IF w >= 0 THEN (w + 5) \div 10 ELSE -((5 - w) \div 10)

\* parseFloat of the decimal column's text.
ParseFloatColumn(c) == c * 10

----------------------------------------------------------------------------
(* Store queries *)

\* The largest id of a table, 0 when it is empty.
MaxId(table) ==
    IF table = {} THEN 0
    ELSE CHOOSE n \in {r.id : r \in table} : \A r \in table : r.id <= n

\* defaultRandom(): an id no row of the table has.
FreshId(table) == MaxId(table) + 1

RECURSIVE SetToSeq(_)
\* The rows of a result set, in the order the store happens to yield them.
SetToSeq(S) ==
    IF S = {} THEN <<>>
    ELSE LET x == CHOOSE y \in S : TRUE IN <<x>> \o SetToSeq(S \ {x})

\* The lookup finds no row, whatever the catalog holds.
FindExerciseByName_Never(name) == Absent

\* db.query.exercises.findFirst({ where: eq(exercises.name, name) })
FindExerciseByName(name) ==
    LET found == {e \in exercises : e.name = name}
    IN  IF found = {} THEN Absent ELSE Some((CHOOSE e \in found : TRUE).id)

\* The sets ordered by setNumber descending.
SetsOf_Desc(weId) ==
    SortSeq(SetToSeq({s \in sets : s.workoutExerciseId = weId}),
            LAMBDA a, b : a.setNumber > b.setNumber)

\* with: { sets: { orderBy: asc(sets.setNumber) } }
SetsOf(weId) ==
    SortSeq(SetToSeq({s \in sets : s.workoutExerciseId = weId}),
            LAMBDA a, b : a.setNumber < b.setNumber)

\* with: { workoutExercises: { orderBy: asc(order), with: { exercise, sets } } }
WorkoutExercisesOf(wId) ==
    LET rows == SortSeq(SetToSeq({we \in workoutExercises : we.workoutId = wId}),
                        LAMBDA a, b : a.order < b.order)
    IN  [k \in 1..Len(rows) |->
            [id       |-> rows[k].id,
             order    |-> rows[k].order,
             exercise |-> CHOOSE e \in exercises : e.id = rows[k].exerciseId,
             sets     |-> SetsOf(rows[k].id)]]

Hydrate(w) ==
    [id |-> w.id, userId |-> w.userId, name |-> w.name, startedAt |-> w.startedAt,
     completedAt |-> w.completedAt, workoutExercises |-> WorkoutExercisesOf(w.id)]

\* The window condition without the owner condition.
InWindow_AnyUser(w, userId, date) ==
    /\ w.startedAt >= startOfDay(date)
    /\ w.startedAt < endOfDay(date)

\* where: and(eq(userId), gte(startedAt, startOfDay), lt(startedAt, endOfDay))
InWindow(w, userId, date) ==
    /\ w.userId = userId
    /\ w.startedAt >= startOfDay(date)
    /\ w.startedAt < endOfDay(date)

\* The rows ordered by startedAt ascending.
FindManyForDate_Asc(userId, date) ==
    LET rows == SortSeq(SetToSeq({w \in workouts : InWindow(w, userId, date)}),
                        LAMBDA a, b : a.startedAt < b.startedAt)
    IN  [k \in 1..Len(rows) |-> Hydrate(rows[k])]

\* getUserWorkoutsForDate after its identity check: findMany, newest first.
FindManyForDate(userId, date) ==
    LET rows == SortSeq(SetToSeq({w \in workouts : InWindow(w, userId, date)}),
                        LAMBDA a, b : a.startedAt > b.startedAt)
    IN  [k \in 1..Len(rows) |-> Hydrate(rows[k])]

\* The id condition without the owner condition.
MatchesById_AnyOwner(w, workoutId, userId) == w.id = workoutId

\* where: and(eq(workouts.id, workoutId), eq(workouts.userId, userId))
MatchesById(w, workoutId, userId) == w.id = workoutId /\ w.userId = userId

\* getUserWorkoutById after its identity check: findFirst, or undefined.
FindFirstById(workoutId, userId) ==
    LET found == {w \in workouts : MatchesById(w, workoutId, userId)}
    IN  IF found = {} THEN Absent ELSE Some(Hydrate(CHOOSE w \in found : TRUE))

\* The edit page's workoutData (the edit document) of a hydrated workout.
WorkoutData(workout) ==
    [id |-> workout.id, name |-> workout.name, startedAt |-> workout.startedAt,
     completedAt |-> workout.completedAt,
     exercises |->
        [k \in 1..Len(workout.workoutExercises) |->
            LET we == workout.workoutExercises[k]
            IN  [name |-> we.exercise.name,
                 sets |-> [j \in 1..Len(we.sets) |->
                    [weight |-> IF IsSome(we.sets[j].weight)
                                THEN Some(ParseFloatColumn(Get(we.sets[j].weight)))
                                ELSE Absent,
                     reps   |-> we.sets[j].reps]]]]]

----------------------------------------------------------------------------
(* Inputs *)

Users == {"user_A", "user_B"}

\* auth() of a request without a session yields no userId.
NoUser == ""

TzOffsets == {-300, 0, 330}

Day0 == [year |-> 2025, month |-> 8, day |-> 31]
Day1 == [year |-> 2025, month |-> 9, day |-> 1]
Day2 == [year |-> 2025, month |-> 9, day |-> 2]

LastMs == MsPerDay - 1
EightAm == 8 * MsPerHour

\* Instants the dashboard is opened at without a date parameter, as local
\* wall-clock times.
NowTimes == {<<Day1, 0>>, <<Day1, LastMs>>}

\* Values of the dashboard's date parameter.
DateParams == {Day1}

SetSpec(w, r) == [weight |-> w, reps |-> r]
ExerciseSpec(n, s) == [name |-> n, sets |-> s]

SquatTwice ==
    <<ExerciseSpec("Squat", <<SetSpec(Some(100000), Some(5)),
                              SetSpec(Some(100000), Some(5))>>)>>

BenchThenSquat ==
    <<ExerciseSpec("Bench Press", <<SetSpec(Some(1005), Absent)>>),
      ExerciseSpec("Squat", <<SetSpec(Absent, Some(5)), SetSpec(Some(2500), Some(3))>>)>>

SquatSquat ==
    <<ExerciseSpec("Squat", <<SetSpec(Some(2500), Some(5))>>),
      ExerciseSpec("Squat", <<SetSpec(Absent, Absent)>>)>>

\* Exercise lists the schema rejects.
InvalidExerciseLists ==
    {<<>>,
     <<ExerciseSpec("Squat", <<>>)>>,
     <<ExerciseSpec("Squat", <<SetSpec(Some(0), Some(5))>>)>>}

WorkoutInput(n, t, e) == [name |-> n, startedAt |-> t, exercises |-> e]

\* new Date(NaN): the time value of an invalid Date, apart from every instant.
InvalidDate == 0 - 2147483647

\* Names at and beyond the schema's upper length limit.
Name100 == "a name of 100 characters"
Name101 == "a name of 101 characters"

\* String.prototype.length of the names the model uses.
StrLen(s) ==
    CASE s = "" -> 0
      [] s = "Leg Day" -> 7
      [] s = "Push Day" -> 8
      [] s = "Squat" -> 5
      [] s = "Bench Press" -> 11
      [] s = Name100 -> 100
      [] s = Name101 -> 101

----------------------------------------------------------------------------
(* createWorkoutSchema *)

RECURSIVE Flatten(_)
Flatten(ss) == IF ss = <<>> THEN <<>> ELSE Head(ss) \o Flatten(Tail(ss))

\* The set schema without its check of reps.
SetIssues_WeightOnly(set) ==
    IF IsSome(set.weight) /\ Get(set.weight) <= 0
    THEN <<"Number must be greater than 0">> ELSE <<>>

SetIssues(set) ==
    (IF IsSome(set.weight) /\ Get(set.weight) <= 0
        THEN <<"Number must be greater than 0">> ELSE <<>>)
    \o (IF IsSome(set.reps) /\ Get(set.reps) <= 0
        THEN <<"Number must be greater than 0">> ELSE <<>>)

ExerciseIssues(ex) ==
    (IF StrLen(ex.name) < 1 THEN <<"Exercise name is required">> ELSE <<>>)
    \o (IF Len(ex.sets) < 1 THEN <<"At least one set is required">> ELSE <<>>)
    \o Flatten([j \in 1..Len(ex.sets) |-> SetIssues(ex.sets[j])])

\* The issues of createWorkoutSchema.parse(input), in the order Zod reports them.
createWorkoutSchema(input) ==
    (IF StrLen(input.name) < 1 THEN <<"Workout name is required">> ELSE <<>>)
    \o (IF StrLen(input.name) > 100
        THEN <<"String must contain at most 100 character(s)">> ELSE <<>>)
    \o (IF input.startedAt = InvalidDate THEN <<"Invalid date">> ELSE <<>>)
    \o (IF Len(input.exercises) < 1
        THEN <<"At least one exercise is required">> ELSE <<>>)
    \o Flatten([k \in 1..Len(input.exercises) |-> ExerciseIssues(input.exercises[k])])

----------------------------------------------------------------------------
(* The createWorkout server action and the createWorkout data helper *)

Procs == {1, 2}

\* The processes whose calls run one after another.
SeqProcs == {1}

GenericCreateError == "Failed to create workout. Please try again."

\* The messages of the errors the store driver raises.
StoreErrors == {"connection terminated unexpectedly", "deadlock detected"}

\* revalidatePath arguments, as path segments.
DashboardPath == <<"dashboard">>
DetailPath(id) == <<"dashboard", "workout", id>>

EmptyInput == WorkoutInput("", 0, <<>>)

IdleCall ==
    [pc |-> "idle", action |-> "", session |-> NoUser, input |-> EmptyInput,
     workout |-> Absent,
     i |-> 0, exercise |-> Absent, workoutExercise |-> Absent, thrown |-> "",
     revalidated |-> {}, result |-> Absent]

\* The browser away from both workout forms: no form is mounted.
NoForm ==
    [page |-> "dashboard", workoutId |-> 0, completedAt |-> Absent, exercises |-> <<>>,
     isLoading |-> FALSE, error |-> Absent, request |-> Absent, awaiting |-> FALSE,
     sentAt |-> 0, navigatedBy |-> "none",
     picked |-> Absent, selectedDate |-> Absent, url |-> Absent]

NoRead ==
    [op |-> "none", session |-> NoUser, workoutId |-> 0, dateParam |-> Absent,
     selectedDate |-> 0, thrown |-> "", page |-> "", workout |-> Absent,
     workoutData |-> Absent, rows |-> <<>>, heading |-> Absent, selector |-> Absent]

Failure(msg) == Some([success |-> FALSE, error |-> msg, id |-> Absent])
Success(id) == Some([success |-> TRUE, error |-> "", id |-> Some(id)])

Quiescent == \A q \in Procs : call[q].pc \in {"idle", "returned"}

\* The statements of the data helper that go to the store.
StorePcs ==
    {"insertWorkout", "findExercise", "insertExercise", "insertWorkoutExercise",
     "insertSets"}

Init ==
    /\ tz \in TzOffsets
    /\ workouts = {}
    /\ exercises = {}
    /\ workoutExercises = {}
    /\ sets = {}
    /\ call = [p \in Procs |-> IdleCall]
    /\ calls = 0
    /\ failures = 0
    /\ lastRead = NoRead
    /\ form = NoForm

\* A client invokes server action action; auth() will answer session.
Begin(p, action, session, input) ==
    /\ call[p].pc \in {"idle", "returned"}
    /\ call' = [call EXCEPT ![p] =
            [IdleCall EXCEPT !.pc = IF action = "updateWorkout" THEN "parseUpdate"
                                    ELSE "parse",
                             !.action = action,
                             !.session = session,
                             !.input = input]]
    /\ calls' = calls + 1
    /\ lastRead' = NoRead
    /\ UNCHANGED <<form, tz, store, failures>>

\* A client invokes the createWorkout server action.
Invoke(p, session, input) ==
    calls < MaxCalls /\ Begin(p, "createWorkout", session, input)

\* The invocation of a client that waits for the previous one to return.
Submit(p, session, input) == Quiescent /\ Invoke(p, session, input)

\* The ZodError leaves the action uncaught: the call rejects.
Parse_Uncaught(p) ==
    /\ call[p].pc = "parse"
    /\ LET issues == createWorkoutSchema(call[p].input)
       IN  call' = [call EXCEPT ![p] =
                IF issues = <<>>
                THEN [@ EXCEPT !.pc = "auth"]
                ELSE [@ EXCEPT !.pc = "rejected", !.thrown = "ZodError"]]
    /\ UNCHANGED <<form, tz, store, calls, failures, lastRead>>

\* createWorkoutSchema.parse(input); a ZodError is caught by the action.
Parse(p) ==
    /\ call[p].pc = "parse"
    /\ LET issues == createWorkoutSchema(call[p].input)
       IN  call' = [call EXCEPT ![p] =
                IF issues = <<>>
                THEN [@ EXCEPT !.pc = "auth"]
                ELSE [@ EXCEPT !.pc = "returned", !.thrown = "ZodError",
                               !.result = Failure(issues[1])]]
    /\ UNCHANGED <<form, tz, store, calls, failures, lastRead>>

\* The helper goes on to the store without looking at userId.
Auth_NoCheck(p) ==
    /\ call[p].pc = "auth"
    /\ call' = [call EXCEPT ![p] = [@ EXCEPT !.pc = "insertWorkout"]]
    /\ UNCHANGED <<form, tz, store, calls, failures, lastRead>>

\* const { userId } = await auth(); if (!userId) throw new Error('Unauthorized')
Auth(p) ==
    /\ call[p].pc = "auth"
    /\ call' = [call EXCEPT ![p] =
            IF call[p].session = NoUser
            THEN [@ EXCEPT !.pc = "returned", !.thrown = "Unauthorized",
                           !.result = Failure(GenericCreateError)]
            ELSE [@ EXCEPT !.pc = "insertWorkout"]]
    /\ UNCHANGED <<form, tz, store, calls, failures, lastRead>>

\* Where the loop over data.exercises goes when it reaches index i (1-based).
LoopPc(input, i) == IF i <= Len(input.exercises) THEN "findExercise" ELSE "revalidate"

\* Every workout is filed under one fixed account.
WorkoutRow_FirstUser(id, userId, input) ==
    [id |-> id, userId |-> "user_A", name |-> input.name,
     startedAt |-> input.startedAt, completedAt |-> Absent]

WorkoutRow(id, userId, input) ==
    [id |-> id, userId |-> userId, name |-> input.name,
     startedAt |-> input.startedAt, completedAt |-> Absent]

\* The insert also clears the workouts of every other user.
InsertWorkout_Replacing(p) ==
    /\ call[p].pc = "insertWorkout"
    /\ LET id == FreshId(workouts)
       IN  /\ workouts' = {w \in workouts : w.userId = call[p].session}
                            \cup {WorkoutRow(id, call[p].session, call[p].input)}
           /\ call' = [call EXCEPT ![p] = [@ EXCEPT !.workout = Some(id), !.i = 1,
                                                     !.pc = LoopPc(call[p].input, 1)]]
    /\ UNCHANGED <<form, tz, exercises, workoutExercises, sets, calls, failures, lastRead>>

\* db.insert(workouts).values({ userId, name, startedAt }).returning()
InsertWorkout(p) ==
    /\ call[p].pc = "insertWorkout"
    /\ LET id == FreshId(workouts)
       IN  /\ workouts' = workouts \cup {WorkoutRow(id, call[p].session, call[p].input)}
           /\ call' = [call EXCEPT ![p] = [@ EXCEPT !.workout = Some(id), !.i = 1,
                                                     !.pc = LoopPc(call[p].input, 1)]]
    /\ UNCHANGED <<form, tz, exercises, workoutExercises, sets, calls, failures, lastRead>>

\* db.query.exercises.findFirst({ where: eq(exercises.name, exerciseData.name) })
FindExercise(p) ==
    /\ call[p].pc = "findExercise"
    /\ LET exercise == FindExerciseByName(call[p].input.exercises[call[p].i].name)
       IN  call' = [call EXCEPT ![p] = [@ EXCEPT !.exercise = exercise,
                        !.pc = IF IsSome(exercise) THEN "insertWorkoutExercise"
                                                   ELSE "insertExercise"]]
    /\ UNCHANGED <<form, tz, store, calls, failures, lastRead>>

\* if (!exercise) db.insert(exercises).values({ name }).returning()
InsertExercise(p) ==
    /\ call[p].pc = "insertExercise"
    /\ LET id == FreshId(exercises)
       IN  /\ exercises' = exercises \cup
                    {[id |-> id, name |-> call[p].input.exercises[call[p].i].name]}
           /\ call' = [call EXCEPT ![p] = [@ EXCEPT !.exercise = Some(id),
                                                     !.pc = "insertWorkoutExercise"]]
    /\ UNCHANGED <<form, tz, workouts, workoutExercises, sets, calls, failures, lastRead>>

\* The link row names its own id where the workout's id belongs.
WorkoutExerciseRow_OwnId(id, workoutId, exerciseId, i) ==
    [id |-> id, workoutId |-> id, exerciseId |-> exerciseId, order |-> i]

WorkoutExerciseRow(id, workoutId, exerciseId, i) ==
    [id |-> id, workoutId |-> workoutId, exerciseId |-> exerciseId, order |-> i]

\* db.insert(workoutExercises).values({ workoutId, exerciseId, order: i })
InsertWorkoutExercise(p) ==
    /\ call[p].pc = "insertWorkoutExercise"
    /\ LET id == FreshId(workoutExercises)
           c  == call[p]
       IN  /\ workoutExercises' = workoutExercises \cup
                    {WorkoutExerciseRow(id, Get(c.workout), Get(c.exercise), c.i - 1)}
           /\ call' = [call EXCEPT ![p] =
                    IF Len(c.input.exercises[c.i].sets) > 0
                    THEN [@ EXCEPT !.workoutExercise = Some(id), !.pc = "insertSets"]
                    ELSE [@ EXCEPT !.workoutExercise = Some(id), !.i = c.i + 1,
                                   !.pc = LoopPc(c.input, c.i + 1)]]
    /\ UNCHANGED <<form, tz, workouts, exercises, sets, calls, failures, lastRead>>

\* A set without reps is stored with reps 0.
SetRow_RepsDefaulted(id, workoutExerciseId, setIndex, set) ==
    [id |-> id, workoutExerciseId |-> workoutExerciseId, setNumber |-> setIndex + 1,
     weight |-> IF IsSome(set.weight) THEN Some(WeightToColumn(Get(set.weight)))
                ELSE Absent,
     reps |-> IF IsSome(set.reps) THEN set.reps ELSE Some(0)]

SetRow(id, workoutExerciseId, setIndex, set) ==
    [id |-> id, workoutExerciseId |-> workoutExerciseId, setNumber |-> setIndex + 1,
     weight |-> IF IsSome(set.weight) THEN Some(WeightToColumn(Get(set.weight)))
                ELSE Absent,
     reps |-> set.reps]

\* db.insert(sets).values(exerciseData.sets.map(...)): one statement, all rows.
InsertSets(p) ==
    /\ call[p].pc = "insertSets"
    /\ LET c     == call[p]
           specs == c.input.exercises[c.i].sets
           base  == MaxId(sets)
       IN  /\ sets' = sets \cup
                    {SetRow(base + j, Get(c.workoutExercise), j - 1, specs[j]) :
                        j \in 1..Len(specs)}
           /\ call' = [call EXCEPT ![p] = [@ EXCEPT !.i = c.i + 1,
                                                     !.pc = LoopPc(c.input, c.i + 1)]]
    /\ UNCHANGED <<form, tz, workouts, exercises, workoutExercises, calls, failures, lastRead>>

\* revalidatePath('/dashboard')
Revalidate(p) ==
    /\ call[p].pc = "revalidate"
    /\ call' = [call EXCEPT ![p] = [@ EXCEPT !.revalidated = {DashboardPath},
                                              !.pc = "return"]]
    /\ UNCHANGED <<form, tz, store, calls, failures, lastRead>>

\* return { success: true, data: { id: workout.id } }
ReturnSuccess(p) ==
    /\ call[p].pc = "return"
    /\ call' = [call EXCEPT ![p] = [@ EXCEPT !.result = Success(Get(call[p].workout)),
                                              !.pc = "returned"]]
    /\ UNCHANGED <<form, tz, store, calls, failures, lastRead>>

\* The catch hands the store's error text to the client.
StoreFailWith_Leak(p, err) ==
    /\ call[p].pc \in StorePcs
    /\ failures < MaxFailures
    /\ call' = [call EXCEPT ![p] = [@ EXCEPT !.pc = "returned", !.thrown = err,
                                              !.result = Failure(err)]]
    /\ failures' = failures + 1
    /\ UNCHANGED <<form, tz, store, calls, lastRead>>

\* The store rejects the statement the helper is about to run with error
\* err; the helper rethrows, the action's catch logs it and returns the
\* generic failure.
StoreFailWith(p, err) ==
    /\ call[p].pc \in StorePcs
    /\ failures < MaxFailures
    /\ call' = [call EXCEPT ![p] = [@ EXCEPT !.pc = "returned", !.thrown = err,
                                              !.result = Failure(GenericCreateError)]]
    /\ failures' = failures + 1
    /\ UNCHANGED <<form, tz, store, calls, lastRead>>

StoreFail(p) == StoreFailWith(p, "connection terminated unexpectedly")

----------------------------------------------------------------------------
(* The updateWorkout server action and the updateWorkout data helper *)

GenericUpdateError == "Failed to update workout. Please try again."

\* An id string that is not a UUID; every other id is one.
NotAUuid == 0

UpdateInput(id, n, t, c, e) ==
    [id |-> id, name |-> n, startedAt |-> t, completedAt |-> c, exercises |-> e]

\* The issues of updateWorkoutSchema.parse(input), in the order Zod reports them.
updateWorkoutSchema(input) ==
    (IF input.id = NotAUuid THEN <<"Invalid uuid">> ELSE <<>>)
    \o (IF StrLen(input.name) < 1 THEN <<"Workout name is required">> ELSE <<>>)
    \o (IF StrLen(input.name) > 100
        THEN <<"String must contain at most 100 character(s)">> ELSE <<>>)
    \o (IF input.startedAt = InvalidDate THEN <<"Invalid date">> ELSE <<>>)
    \o (IF Len(input.exercises) < 1
        THEN <<"At least one exercise is required">> ELSE <<>>)
    \o Flatten([k \in 1..Len(input.exercises) |-> ExerciseIssues(input.exercises[k])])

\* The statements of the update helper that go to the store.
UpdateStorePcs == {"verifyOwnership", "replaceAggregate"}

\* A client invokes the updateWorkout server action; auth() will answer session.
SubmitUpdate(p, session, input) ==
    Quiescent /\ calls < MaxCalls /\ Begin(p, "updateWorkout", session, input)

\* The action hands the input to the helper whatever the schema says.
ParseUpdate_Unchecked(p) ==
    /\ call[p].pc = "parseUpdate"
    /\ call' = [call EXCEPT ![p] = [@ EXCEPT !.pc = "authUpdate"]]
    /\ UNCHANGED <<form, tz, store, calls, failures, lastRead>>

\* updateWorkoutSchema.parse(input); a ZodError is caught by the action.
ParseUpdate(p) ==
    /\ call[p].pc = "parseUpdate"
    /\ LET issues == updateWorkoutSchema(call[p].input)
       IN  call' = [call EXCEPT ![p] =
                IF issues = <<>>
                THEN [@ EXCEPT !.pc = "authUpdate"]
                ELSE [@ EXCEPT !.pc = "returned", !.thrown = "ZodError",
                               !.result = Failure(issues[1])]]
    /\ UNCHANGED <<form, tz, store, calls, failures, lastRead>>

\* The helper's identity check: throw new Error('Unauthorized') without a
\* session user.
AuthUpdate(p) ==
    /\ call[p].pc = "authUpdate"
    /\ call' = [call EXCEPT ![p] =
            IF call[p].session = NoUser
            THEN [@ EXCEPT !.pc = "returned", !.thrown = "Unauthorized",
                           !.result = Failure(GenericUpdateError)]
            ELSE [@ EXCEPT !.pc = "verifyOwnership"]]
    /\ UNCHANGED <<form, tz, store, calls, failures, lastRead>>

\* The helper looks the workout up by id alone.
VerifyOwnership_AnyOwner(p) ==
    /\ call[p].pc = "verifyOwnership"
    /\ LET c     == call[p]
           found == {w \in workouts : w.id = c.input.id}
       IN  call' = [call EXCEPT ![p] =
                IF found = {}
                THEN [@ EXCEPT !.pc = "returned",
                               !.thrown = "Workout not found or unauthorized",
                               !.result = Failure(GenericUpdateError)]
                ELSE [@ EXCEPT !.workout = Some(c.input.id),
                               !.pc = "replaceAggregate"]]
    /\ UNCHANGED <<form, tz, store, calls, failures, lastRead>>

\* The helper re-reads the workout by id AND owner before mutating; no row:
\* throw new Error('Workout not found or unauthorized').
VerifyOwnership(p) ==
    /\ call[p].pc = "verifyOwnership"
    /\ LET c     == call[p]
           found == {w \in workouts : w.id = c.input.id /\ w.userId = c.session}
       IN  call' = [call EXCEPT ![p] =
                IF found = {}
                THEN [@ EXCEPT !.pc = "returned",
                               !.thrown = "Workout not found or unauthorized",
                               !.result = Failure(GenericUpdateError)]
                ELSE [@ EXCEPT !.workout = Some(c.input.id),
                               !.pc = "replaceAggregate"]]
    /\ UNCHANGED <<form, tz, store, calls, failures, lastRead>>

RECURSIVE ComposeTree(_, _, _, _)
\* The tables after the exercise specs from index k on have been written for
\* workout workoutId: lookup-or-create of the catalog row, one
\* workout_exercises row and the sets rows per spec, as on create.
ComposeTree(tables, workoutId, specs, k) ==
    IF k > Len(specs) THEN tables
    ELSE LET named == {e \in tables.exercises : e.name = specs[k].name}
             exId  == IF named = {} THEN FreshId(tables.exercises)
                      ELSE (CHOOSE e \in named : TRUE).id
             weId  == FreshId(tables.workoutExercises)
             base  == MaxId(tables.sets)
         IN  ComposeTree(
                [exercises |-> tables.exercises
                                \cup {[id |-> exId, name |-> specs[k].name]},
                 workoutExercises |-> tables.workoutExercises
                                \cup {WorkoutExerciseRow(weId, workoutId, exId, k - 1)},
                 sets |-> tables.sets
                                \cup {SetRow(base + j, weId, j - 1, specs[k].sets[j]) :
                                        j \in 1..Len(specs[k].sets)}],
                workoutId, specs, k + 1)

\* One transaction: the workout row takes the input's name, startedAt and
\* completedAt, and its exercise/set tree is replaced wholesale.
ReplaceAggregate(p) ==
    /\ call[p].pc = "replaceAggregate"
    /\ LET c       == call[p]
           id      == c.input.id
           oldWes  == {we \in workoutExercises : we.workoutId = id}
           oldSets == {st \in sets : \E we \in oldWes : st.workoutExerciseId = we.id}
           tree    == ComposeTree([exercises |-> exercises,
                                   workoutExercises |-> workoutExercises,
                                   sets |-> sets], id, c.input.exercises, 1)
       IN  /\ workouts' = {IF w.id = id
                              THEN [w EXCEPT !.name = c.input.name,
                                             !.startedAt = c.input.startedAt,
                                             !.completedAt = c.input.completedAt]
                              ELSE w : w \in workouts}
           /\ exercises' = tree.exercises
           /\ workoutExercises' = tree.workoutExercises \ oldWes
           /\ sets' = tree.sets \ oldSets
    /\ call' = [call EXCEPT ![p] = [@ EXCEPT !.pc = "revalidateUpdate"]]
    /\ UNCHANGED <<form, tz, calls, failures, lastRead>>

\* revalidatePath('/dashboard')
RevalidateDashboard(p) ==
    /\ call[p].pc = "revalidateUpdate"
    /\ call' = [call EXCEPT ![p] =
            [@ EXCEPT !.revalidated = @ \cup {DashboardPath}, !.pc = "revalidateDetail"]]
    /\ UNCHANGED <<form, tz, store, calls, failures, lastRead>>

\* The action goes on to return without revalidating the detail path.
RevalidateDetail_Skipped(p) ==
    /\ call[p].pc = "revalidateDetail"
    /\ call' = [call EXCEPT ![p] = [@ EXCEPT !.pc = "returnUpdate"]]
    /\ UNCHANGED <<form, tz, store, calls, failures, lastRead>>

\* revalidatePath(`/dashboard/workout/${workout.id}`)
RevalidateDetail(p) ==
    /\ call[p].pc = "revalidateDetail"
    /\ call' = [call EXCEPT ![p] =
            [@ EXCEPT !.revalidated = @ \cup {DetailPath(Get(call[p].workout))},
                      !.pc = "returnUpdate"]]
    /\ UNCHANGED <<form, tz, store, calls, failures, lastRead>>

\* return { success: true, data: { id: workout.id } }
ReturnSuccessUpdate(p) ==
    /\ call[p].pc = "returnUpdate"
    /\ call' = [call EXCEPT ![p] = [@ EXCEPT !.result = Success(Get(call[p].workout)),
                                              !.pc = "returned"]]
    /\ UNCHANGED <<form, tz, store, calls, failures, lastRead>>

\* The store rejects the statement the update helper is about to run with
\* error err; the action's catch logs it and returns the generic failure.
StoreFailUpdate(p, err) ==
    /\ call[p].pc \in UpdateStorePcs
    /\ failures < MaxFailures
    /\ call' = [call EXCEPT ![p] = [@ EXCEPT !.pc = "returned", !.thrown = err,
                                              !.result = Failure(GenericUpdateError)]]
    /\ failures' = failures + 1
    /\ UNCHANGED <<form, tz, store, calls, lastRead>>

\* The positions of both actions at which revalidatePath is the next call.
RevalidatePcs == {"revalidate", "revalidateUpdate", "revalidateDetail"}

\* revalidatePath throws; the action's catch returns the generic failure of
\* the action it belongs to.
RevalidateFail(p) ==
    /\ call[p].pc \in RevalidatePcs
    /\ failures < MaxFailures
    /\ call' = [call EXCEPT ![p] =
            [@ EXCEPT !.pc = "returned", !.thrown = "revalidatePath failed",
                      !.result = Failure(IF call[p].action = "updateWorkout"
                                         THEN GenericUpdateError
                                         ELSE GenericCreateError)]]
    /\ failures' = failures + 1
    /\ UNCHANGED <<form, tz, store, calls, lastRead>>

----------------------------------------------------------------------------
(* Pages *)

\* getUserWorkoutById(workoutId) as called by the page: the thrown error, or
\* the workout found.
getUserWorkoutById(session, workoutId) ==
    IF session = NoUser
    THEN [thrown |-> "Unauthorized", workout |-> Absent]
    ELSE [thrown |-> "", workout |-> FindFirstById(workoutId, session)]

\* getUserWorkoutsForDate(date): the thrown error, or the rows found.
getUserWorkoutsForDate(session, date) ==
    IF session = NoUser
    THEN [thrown |-> "Unauthorized", rows |-> <<>>]
    ELSE [thrown |-> "", rows |-> FindManyForDate(session, date)]

\* The read stamps the workout it returns as completed.
RenderEditWorkoutPage_Stamping(session, workoutId) ==
    /\ LET r == getUserWorkoutById(session, workoutId)
       IN  /\ lastRead' = [NoRead EXCEPT
                    !.op = "EditWorkoutPage", !.session = session,
                    !.workoutId = workoutId, !.thrown = r.thrown,
                    !.workout = r.workout,
                    !.page = IF r.thrown # "" THEN "error"
                             ELSE IF ~IsSome(r.workout) THEN "notFound" ELSE "form",
                    !.workoutData = IF IsSome(r.workout)
                                    THEN Some(WorkoutData(Get(r.workout))) ELSE Absent]
           /\ workouts' = {IF IsSome(r.workout) /\ w.id = workoutId
                              THEN [w EXCEPT !.completedAt = Some(w.startedAt)]
                              ELSE w : w \in workouts}
    /\ UNCHANGED <<form, tz, exercises, workoutExercises, sets, call, calls, failures>>

\* The edit page rendered against the store as it is at this instant.
RenderEditWorkoutPage(session, workoutId) ==
    /\ LET r == getUserWorkoutById(session, workoutId)
       IN  lastRead' = [NoRead EXCEPT
                !.op = "EditWorkoutPage", !.session = session,
                !.workoutId = workoutId, !.thrown = r.thrown, !.workout = r.workout,
                !.page = IF r.thrown # "" THEN "error"
                         ELSE IF ~IsSome(r.workout) THEN "notFound" ELSE "form",
                !.workoutData = IF IsSome(r.workout)
                                THEN Some(WorkoutData(Get(r.workout))) ELSE Absent]
    /\ UNCHANGED <<form, tz, store, call, calls, failures>>

\* GET /dashboard/workout/[workoutId], no server action in flight
EditWorkoutPage(session, workoutId) ==
    Quiescent /\ RenderEditWorkoutPage(session, workoutId)

\* The dashboard rendered against the store as it is at this instant.
RenderDashboardPage(session, dateParam, now) ==
    /\ LET selectedDate == IF IsSome(dateParam) THEN ParseDateOnly(Get(dateParam))
                           ELSE now
           r == getUserWorkoutsForDate(session, selectedDate)
       IN  lastRead' = [NoRead EXCEPT
                !.op = "DashboardPage", !.session = session, !.dateParam = dateParam,
                !.selectedDate = selectedDate, !.thrown = r.thrown, !.rows = r.rows,
                !.page = IF r.thrown # "" THEN "error" ELSE "list",
                !.heading = IF r.thrown # "" THEN Absent
                            ELSE Some(formatDate(selectedDate)),
                !.selector = IF r.thrown # "" THEN Absent
                             ELSE Some(formatDate(selectedDate))]
    /\ UNCHANGED <<form, tz, store, call, calls, failures>>

\* GET /dashboard?date=dateParam, evaluated at instant now, no server action
\* in flight
DashboardPage(session, dateParam, now) ==
    Quiescent /\ RenderDashboardPage(session, dateParam, now)

----------------------------------------------------------------------------
(* The new-workout form and the edit-workout form (client components) *)

MaxFormExercises == 2
MaxFormSets == 2

UnexpectedError == "An unexpected error occurred. Please try again."

\* The names a user types into an exercise's name field.
TypedExerciseNames == {"Squat"}

\* { weight: '', reps: '' }: an empty field is a set value not supplied.
BlankSet == SetSpec(Absent, Absent)

\* { name: '', sets: [{ weight: '', reps: '' }] }
BlankExercise == ExerciseSpec("", <<BlankSet>>)

\* useFieldArray's remove(index)
RemoveAt(s, i) == SubSeq(s, 1, i - 1) \o SubSeq(s, i + 1, Len(s))

FormShown == form.page \in {"new", "edit"}

\* The submit button and the Cancel button: disabled={isLoading}
SubmitDisabled == form.isLoading

\* GET /dashboard/workout/new: the form with its defaultValues
OpenNewForm ==
    /\ form.page = "dashboard"
    /\ form' = [NoForm EXCEPT !.page = "new", !.exercises = <<BlankExercise>>]
    /\ UNCHANGED <<tz, store, call, calls, failures, lastRead>>

\* EditWorkoutForm mounted with the workout the edit page has just read.
OpenEditForm ==
    /\ form.page = "dashboard"
    /\ lastRead.op = "EditWorkoutPage"
    /\ lastRead.page = "form"
    /\ LET workout == Get(lastRead.workoutData)
       IN  form' = [NoForm EXCEPT !.page = "edit", !.workoutId = workout.id,
                                  !.completedAt = workout.completedAt,
                                  !.exercises = workout.exercises]
    /\ UNCHANGED <<tz, store, call, calls, failures, lastRead>>

\* The Add Exercise button
AddExercise ==
    /\ FormShown
    /\ Len(form.exercises) < MaxFormExercises
    /\ form' = [form EXCEPT !.exercises = Append(@, BlankExercise)]
    /\ UNCHANGED <<tz, store, call, calls, failures, lastRead>>

\* An exercise card's remove button, rendered whatever the number of cards.
RemoveExercise_Always(i) ==
    /\ FormShown
    /\ i \in 1..Len(form.exercises)
    /\ form' = [form EXCEPT !.exercises = RemoveAt(@, i)]
    /\ UNCHANGED <<tz, store, call, calls, failures, lastRead>>

\* An exercise card's remove button, rendered when canRemove
\* (exerciseFields.length > 1).
RemoveExercise(i) ==
    /\ FormShown
    /\ Len(form.exercises) > 1
    /\ i \in 1..Len(form.exercises)
    /\ form' = [form EXCEPT !.exercises = RemoveAt(@, i)]
    /\ UNCHANGED <<tz, store, call, calls, failures, lastRead>>

\* An exercise card's Add Set button
AddSet(i) ==
    /\ FormShown
    /\ i \in 1..Len(form.exercises)
    /\ Len(form.exercises[i].sets) < MaxFormSets
    /\ form' = [form EXCEPT !.exercises[i].sets = Append(@, BlankSet)]
    /\ UNCHANGED <<tz, store, call, calls, failures, lastRead>>

\* A set row's remove button, rendered when setFields.length > 1.
RemoveSet(i, j) ==
    /\ FormShown
    /\ i \in 1..Len(form.exercises)
    /\ Len(form.exercises[i].sets) > 1
    /\ j \in 1..Len(form.exercises[i].sets)
    /\ form' = [form EXCEPT !.exercises[i].sets = RemoveAt(@, j)]
    /\ UNCHANGED <<tz, store, call, calls, failures, lastRead>>

\* The user types name n into the empty name field of exercise card i.
TypeExerciseName(i, n) ==
    /\ FormShown
    /\ i \in 1..Len(form.exercises)
    /\ form.exercises[i].name = ""
    /\ form' = [form EXCEPT !.exercises[i].name = n]
    /\ UNCHANGED <<tz, store, call, calls, failures, lastRead>>

\* workoutFormSchema (zodResolver): handleSubmit calls onSubmit only with
\* values the form's schema accepts.
workoutFormSchema(name, exs) ==
    /\ StrLen(name) >= 1
    /\ StrLen(name) <= 100
    /\ Len(exs) >= 1
    /\ \A k \in 1..Len(exs) : StrLen(exs[k].name) >= 1 /\ Len(exs[k].sets) >= 1

\* The input onSubmit builds for the server action of its form.
FormInput(name, startedAt) ==
    IF form.page = "edit"
    THEN UpdateInput(form.workoutId, name, startedAt, form.completedAt, form.exercises)
    ELSE WorkoutInput(name, startedAt, form.exercises)

\* onSubmit up to its await: setIsLoading(true), setError(null), the input
\* built, the server action called.
onSubmit(name, startedAt) ==
    /\ FormShown
    /\ ~SubmitDisabled
    /\ workoutFormSchema(name, form.exercises)
    /\ calls < MaxCalls
    /\ form' = [form EXCEPT !.isLoading = TRUE, !.error = Absent,
                            !.request = Some(FormInput(name, startedAt)),
                            !.awaiting = TRUE, !.sentAt = calls]
    /\ UNCHANGED <<tz, store, call, calls, failures, lastRead>>

\* The server starts the action the form has called; auth() will answer
\* session.
ReceiveSubmit(p, session) ==
    /\ form.awaiting
    /\ calls = form.sentAt
    /\ Begin(p, IF form.page = "edit" THEN "updateWorkout" ELSE "createWorkout",
             session, Get(form.request))

\* The action the form awaits has returned.
ActionResolved(p) ==
    /\ form.awaiting
    /\ calls > form.sentAt
    /\ call[p].pc = "returned"

\* onSubmit after its await, with router.push('/dashboard') on every result.
ResolveSubmit_AlwaysNavigates(p) ==
    /\ ActionResolved(p)
    /\ form' = [NoForm EXCEPT !.navigatedBy = "submit"]
    /\ UNCHANGED <<tz, store, call, calls, failures, lastRead>>

\* onSubmit after its await: router.push('/dashboard') on success, which
\* unmounts the form; setError(result.error) and setIsLoading(false)
\* otherwise.
ResolveSubmit(p) ==
    /\ ActionResolved(p)
    /\ LET result == Get(call[p].result)
       IN  form' = IF result.success
                   THEN [NoForm EXCEPT !.navigatedBy = "submit"]
                   ELSE [form EXCEPT !.error = Some(result.error),
                                     !.isLoading = FALSE, !.request = Absent,
                                     !.awaiting = FALSE, !.sentAt = 0]
    /\ UNCHANGED <<tz, store, call, calls, failures, lastRead>>

\* The awaited call rejects (its response does not reach the browser): the
\* catch of onSubmit.
RejectSubmit(p) ==
    /\ ActionResolved(p)
    /\ form' = [form EXCEPT !.error = Some(UnexpectedError), !.isLoading = FALSE,
                            !.request = Absent, !.awaiting = FALSE, !.sentAt = 0]
    /\ UNCHANGED <<tz, store, call, calls, failures, lastRead>>

\* The Cancel button: router.push('/dashboard')
CancelForm ==
    /\ FormShown
    /\ ~SubmitDisabled
    /\ form' = [NoForm EXCEPT !.navigatedBy = "cancel"]
    /\ UNCHANGED <<tz, store, call, calls, failures, lastRead>>

----------------------------------------------------------------------------
(* The date selector (client component of the dashboard) *)

\* The character of decimal digit n, and the digit of character c.
DigitChar(n) == <<"0", "1", "2", "3", "4", "5", "6", "7", "8", "9">>[n + 1]
DigitOf(c) == CHOOSE n \in 0..9 : DigitChar(n) = c

\* String(n) of a four-digit year.
YearString(y) ==
    <<DigitChar(y \div 1000), DigitChar((y \div 100) % 10), DigitChar((y \div 10) % 10),
      DigitChar(y % 10)>>

\* String(n).padStart(2, '0') for 0 <= n <= 99
PadStart2(n) ==
    IF n < 10 THEN <<"0", DigitChar(n)>> ELSE <<DigitChar(n \div 10), DigitChar(n % 10)>>

\* formatDateToString(date): the local year, month and day of date, as the
\* characters of `${year}-${month}-${day}`.
formatDateToString(date) ==
    LET c == LocalCivil(date)
    IN  YearString(c.year) \o <<"-">> \o PadStart2(c.month) \o <<"-">> \o PadStart2(c.day)

\* The date a date-only ISO string (YYYY-MM-DD) names; new Date reads it as
\* midnight UTC of that date (ParseDateOnly).
ParseIsoDate(str) ==
    [year  |-> 1000 * DigitOf(str[1]) + 100 * DigitOf(str[2]) + 10 * DigitOf(str[3])
                + DigitOf(str[4]),
     month |-> 10 * DigitOf(str[6]) + DigitOf(str[7]),
     day   |-> 10 * DigitOf(str[9]) + DigitOf(str[10])]

\* handleDateChange(date) with the Date the calendar hands over for day d
\* (local midnight of d): setSelectedDate(date), and the URL gets
\* ?date=formatDateToString(date).
SelectDate(d) ==
    /\ form.page = "dashboard"
    /\ LET date == LocalDateTime(d, 0)
       IN  form' = [NoForm EXCEPT !.picked = Some(d), !.selectedDate = Some(date),
                                  !.url = Some(formatDateToString(date))]
    /\ UNCHANGED <<tz, store, call, calls, failures, lastRead>>

\* The dashboard requested with the date parameter the selector wrote.
FollowUrl(session) ==
    /\ IsSome(form.url)
    /\ DashboardPage(session, Some(ParseIsoDate(Get(form.url))), 0)

----------------------------------------------------------------------------
(* Specification *)

\* The inputs a client submits: local start time and exercise list.
ValidInputs ==
    {WorkoutInput("Leg Day", LocalDateTime(Day1, EightAm), SquatTwice),
     WorkoutInput("Leg Day", LocalDateTime(Day1, 0), BenchThenSquat),
     WorkoutInput("Leg Day", LocalDateTime(Day1, LastMs), SquatSquat),
     WorkoutInput("Leg Day", LocalDateTime(Day0, LastMs), BenchThenSquat),
     WorkoutInput("Leg Day", LocalDateTime(Day0, EightAm), SquatSquat),
     WorkoutInput("Leg Day", LocalDateTime(Day2, 0), SquatTwice)}

InvalidInputs ==
    {WorkoutInput("Leg Day", LocalDateTime(Day1, EightAm), e) :
        e \in InvalidExerciseLists}
    \cup {WorkoutInput("", LocalDateTime(Day1, EightAm), SquatTwice)}

Inputs == ValidInputs \cup InvalidInputs

Sessions == Users \cup {NoUser}

Next ==
    \/ \E p \in SeqProcs, session \in Sessions, input \in Inputs :
            Submit(p, session, input)
    \/ \E p \in SeqProcs : Parse(p)
    \/ \E p \in SeqProcs : Auth(p)
    \/ \E p \in SeqProcs : InsertWorkout(p)
    \/ \E p \in SeqProcs : FindExercise(p)
    \/ \E p \in SeqProcs : InsertExercise(p)
    \/ \E p \in SeqProcs : InsertWorkoutExercise(p)
    \/ \E p \in SeqProcs : InsertSets(p)
    \/ \E p \in SeqProcs : Revalidate(p)
    \/ \E p \in SeqProcs : ReturnSuccess(p)
    \/ \E p \in SeqProcs : StoreFail(p)
    \/ \E session \in Sessions, workoutId \in 1..(MaxCalls + 1) :
            EditWorkoutPage(session, workoutId)
    \/ \E session \in Sessions, d \in DateParams :
            DashboardPage(session, Some(d), 0)
    \/ \E session \in Sessions, t \in NowTimes :
            DashboardPage(session, Absent, LocalDateTime(t[1], t[2]))

Spec == Init /\ [][Next]_vars

\* The two server actions, with every kind of input their schemas tell
\* apart, every store error and a failing revalidatePath; one time zone.
ActionCreateInputs ==
    {WorkoutInput("Leg Day", LocalDateTime(Day1, EightAm), SquatTwice),
     WorkoutInput(Name100, LocalDateTime(Day1, 0), BenchThenSquat),
     WorkoutInput("", LocalDateTime(Day1, EightAm), SquatTwice),
     WorkoutInput(Name101, LocalDateTime(Day1, EightAm), SquatTwice),
     WorkoutInput("", LocalDateTime(Day1, EightAm), <<>>),
     WorkoutInput("Leg Day", InvalidDate, SquatTwice),
     WorkoutInput("Leg Day", InvalidDate, <<>>),
     WorkoutInput("Leg Day", LocalDateTime(Day1, EightAm),
        <<ExerciseSpec("", <<>>)>>),
     WorkoutInput("Leg Day", LocalDateTime(Day1, EightAm),
        <<ExerciseSpec("", <<SetSpec(Absent, Some(5))>>)>>),
     WorkoutInput("Leg Day", LocalDateTime(Day1, EightAm),
        <<ExerciseSpec("Squat", <<SetSpec(Absent, Some(0))>>)>>),
     WorkoutInput("Leg Day", LocalDateTime(Day1, EightAm),
        <<ExerciseSpec("Squat", <<SetSpec(Some(0 - 2500), Some(5))>>)>>),
     WorkoutInput("Leg Day", LocalDateTime(Day1, EightAm),
        <<ExerciseSpec("Squat", <<SetSpec(Some(2500), Some(5))>>),
          ExerciseSpec("Bench Press", <<SetSpec(Some(2500), Some(0 - 1))>>)>>)}
    \cup {WorkoutInput("Leg Day", LocalDateTime(Day1, EightAm), e) :
            e \in InvalidExerciseLists}

UpdateInputs ==
    {UpdateInput(id, "Push Day", LocalDateTime(Day1, LastMs),
                 Some(LocalDateTime(Day2, 0)), BenchThenSquat) : id \in {NotAUuid, 1, 2}}
    \cup {UpdateInput(1, "Leg Day", LocalDateTime(Day1, EightAm), Absent, SquatSquat),
          UpdateInput(1, "", LocalDateTime(Day1, EightAm), Absent, SquatSquat),
          UpdateInput(1, "Leg Day", LocalDateTime(Day1, EightAm), Absent, <<>>),
          UpdateInput(NotAUuid, "Leg Day", LocalDateTime(Day1, EightAm), Absent,
                      <<ExerciseSpec("Squat", <<SetSpec(Absent, Some(0))>>)>>)}

InitActions == Init /\ tz = 0

NextActions ==
    \/ \E p \in SeqProcs, session \in Sessions, input \in ActionCreateInputs :
            Submit(p, session, input)
    \/ \E p \in SeqProcs : Parse(p)
    \/ \E p \in SeqProcs : Auth(p)
    \/ \E p \in SeqProcs : InsertWorkout(p)
    \/ \E p \in SeqProcs : FindExercise(p)
    \/ \E p \in SeqProcs : InsertExercise(p)
    \/ \E p \in SeqProcs : InsertWorkoutExercise(p)
    \/ \E p \in SeqProcs : InsertSets(p)
    \/ \E p \in SeqProcs : Revalidate(p)
    \/ \E p \in SeqProcs : ReturnSuccess(p)
    \/ \E p \in SeqProcs, err \in StoreErrors : StoreFailWith(p, err)
    \/ \E p \in SeqProcs, session \in Sessions, input \in UpdateInputs :
            SubmitUpdate(p, session, input)
    \/ \E p \in SeqProcs : ParseUpdate(p)
    \/ \E p \in SeqProcs : AuthUpdate(p)
    \/ \E p \in SeqProcs : VerifyOwnership(p)
    \/ \E p \in SeqProcs : ReplaceAggregate(p)
    \/ \E p \in SeqProcs : RevalidateDashboard(p)
    \/ \E p \in SeqProcs : RevalidateDetail(p)
    \/ \E p \in SeqProcs : ReturnSuccessUpdate(p)
    \/ \E p \in SeqProcs, err \in StoreErrors : StoreFailUpdate(p, err)
    \/ \E p \in SeqProcs : RevalidateFail(p)

SpecActions == InitActions /\ [][NextActions]_vars

\* Two clients invoke createWorkout at the same time: the statements of the
\* two calls interleave in every order.
ConcurrentInputs ==
    {WorkoutInput("Leg Day", LocalDateTime(Day1, EightAm), SquatTwice),
     WorkoutInput("Leg Day", LocalDateTime(Day1, 0), BenchThenSquat)}

NextConcurrent ==
    \/ \E p \in Procs, session \in Users, input \in ConcurrentInputs :
            Invoke(p, session, input)
    \/ \E p \in Procs : Parse(p)
    \/ \E p \in Procs : Auth(p)
    \/ \E p \in Procs : InsertWorkout(p)
    \/ \E p \in Procs : FindExercise(p)
    \/ \E p \in Procs : InsertExercise(p)
    \/ \E p \in Procs : InsertWorkoutExercise(p)
    \/ \E p \in Procs : InsertSets(p)
    \/ \E p \in Procs : Revalidate(p)
    \/ \E p \in Procs : ReturnSuccess(p)

SpecConcurrent == InitActions /\ [][NextConcurrent]_vars

\* Pages requested while a createWorkout call is running: each read sees the
\* store between two statements of the call.
NextReadDuringCreate ==
    \/ \E p \in SeqProcs, session \in Users, input \in ConcurrentInputs :
            Invoke(p, session, input)
    \/ \E p \in SeqProcs : Parse(p)
    \/ \E p \in SeqProcs : Auth(p)
    \/ \E p \in SeqProcs : InsertWorkout(p)
    \/ \E p \in SeqProcs : FindExercise(p)
    \/ \E p \in SeqProcs : InsertExercise(p)
    \/ \E p \in SeqProcs : InsertWorkoutExercise(p)
    \/ \E p \in SeqProcs : InsertSets(p)
    \/ \E p \in SeqProcs : Revalidate(p)
    \/ \E p \in SeqProcs : ReturnSuccess(p)
    \/ \E session \in Users, workoutId \in 1..MaxCalls :
            RenderEditWorkoutPage(session, workoutId)
    \/ \E session \in Users, d \in DateParams :
            RenderDashboardPage(session, Some(d), 0)

SpecReadDuringCreate == InitActions /\ [][NextReadDuringCreate]_vars

\* One user creates a workout and edits it again and again, setting or
\* clearing the completion time as the edit form does.
MaxLifecycleCalls == 3

LifecycleUpdateInputs ==
    {UpdateInput(1, "Leg Day", LocalDateTime(Day1, EightAm), c, SquatTwice) :
        c \in {Absent, Some(LocalDateTime(Day1, LastMs))}}

LifecycleCreate(p, session, input) ==
    /\ Quiescent
    /\ calls < MaxLifecycleCalls
    /\ Begin(p, "createWorkout", session, input)

LifecycleUpdate(p, session, input) ==
    /\ Quiescent
    /\ calls < MaxLifecycleCalls
    /\ Begin(p, "updateWorkout", session, input)

NextLifecycle ==
    \/ \E p \in SeqProcs, session \in Users, input \in ConcurrentInputs :
            LifecycleCreate(p, session, input)
    \/ \E p \in SeqProcs : Parse(p)
    \/ \E p \in SeqProcs : Auth(p)
    \/ \E p \in SeqProcs : InsertWorkout(p)
    \/ \E p \in SeqProcs : FindExercise(p)
    \/ \E p \in SeqProcs : InsertExercise(p)
    \/ \E p \in SeqProcs : InsertWorkoutExercise(p)
    \/ \E p \in SeqProcs : InsertSets(p)
    \/ \E p \in SeqProcs : Revalidate(p)
    \/ \E p \in SeqProcs : ReturnSuccess(p)
    \/ \E p \in SeqProcs, session \in Users, input \in LifecycleUpdateInputs :
            LifecycleUpdate(p, session, input)
    \/ \E p \in SeqProcs : ParseUpdate(p)
    \/ \E p \in SeqProcs : AuthUpdate(p)
    \/ \E p \in SeqProcs : VerifyOwnership(p)
    \/ \E p \in SeqProcs : ReplaceAggregate(p)
    \/ \E p \in SeqProcs : RevalidateDashboard(p)
    \/ \E p \in SeqProcs : RevalidateDetail(p)
    \/ \E p \in SeqProcs : ReturnSuccessUpdate(p)

SpecLifecycle == InitActions /\ [][NextLifecycle]_vars

\* One browser working the two forms against the two server actions: a
\* signed-in user who may have been signed out by the time the action runs,
\* a store that may fail, a response that may be lost.
FormSessions == {"user_A", NoUser}

NextForm ==
    \/ OpenNewForm
    \/ \E workoutId \in 1..MaxCalls : EditWorkoutPage("user_A", workoutId)
    \/ OpenEditForm
    \/ AddExercise
    \/ \E i \in 1..MaxFormExercises : RemoveExercise(i)
    \/ \E i \in 1..MaxFormExercises : AddSet(i)
    \/ \E i \in 1..MaxFormExercises, j \in 1..MaxFormSets : RemoveSet(i, j)
    \/ \E i \in 1..MaxFormExercises, n \in TypedExerciseNames : TypeExerciseName(i, n)
    \/ onSubmit("Leg Day", LocalDateTime(Day1, EightAm))
    \/ \E p \in SeqProcs, session \in FormSessions : ReceiveSubmit(p, session)
    \/ \E p \in SeqProcs : Parse(p)
    \/ \E p \in SeqProcs : Auth(p)
    \/ \E p \in SeqProcs : InsertWorkout(p)
    \/ \E p \in SeqProcs : FindExercise(p)
    \/ \E p \in SeqProcs : InsertExercise(p)
    \/ \E p \in SeqProcs : InsertWorkoutExercise(p)
    \/ \E p \in SeqProcs : InsertSets(p)
    \/ \E p \in SeqProcs : Revalidate(p)
    \/ \E p \in SeqProcs : ReturnSuccess(p)
    \/ \E p \in SeqProcs : StoreFail(p)
    \/ \E p \in SeqProcs : ParseUpdate(p)
    \/ \E p \in SeqProcs : AuthUpdate(p)
    \/ \E p \in SeqProcs : VerifyOwnership(p)
    \/ \E p \in SeqProcs : ReplaceAggregate(p)
    \/ \E p \in SeqProcs : RevalidateDashboard(p)
    \/ \E p \in SeqProcs : RevalidateDetail(p)
    \/ \E p \in SeqProcs : ReturnSuccessUpdate(p)
    \/ \E p \in SeqProcs : ResolveSubmit(p)
    \/ \E p \in SeqProcs : RejectSubmit(p)
    \/ CancelForm

SpecForm == InitActions /\ [][NextForm]_vars

----------------------------------------------------------------------------
(* Vocabulary of the properties *)

Succeeded(c) == c.pc = "returned" /\ IsSome(c.result) /\ Get(c.result).success
Failed(c) == c.pc = "returned" /\ IsSome(c.result) /\ ~Get(c.result).success

\* The ids of the workouts a dashboard request returned.
ReturnedIds == {lastRead.rows[k].id : k \in 1..Len(lastRead.rows)}

\* The input a stored workout was created from (the inputs submitted differ
\* in their start time).
InputOf(w) == CHOOSE input \in ValidInputs : input.startedAt = w.startedAt

\* The hydrated workouts the last page request obtained from its data helper.
ReadWorkouts ==
    {lastRead.rows[k] : k \in 1..Len(lastRead.rows)}
    \cup {lastRead.workout[k] : k \in 1..Len(lastRead.workout)}

----------------------------------------------------------------------------
(* C1 *)

\* C1: a workout read by id as a user who does not own it gives the same
\* not-found result as an id that is not stored, and the edit page answers
\* notFound() in both cases; the aggregate comes back only when the id and
\* the owner both match.
C1_OwnershipIsolation ==
    (lastRead.op = "EditWorkoutPage" /\ lastRead.session \in Users) =>
        LET owned   == \E w \in workouts : /\ w.id = lastRead.workoutId
                                           /\ w.userId = lastRead.session
            missing == getUserWorkoutById(lastRead.session, FreshId(workouts))
        IN  /\ ~IsSome(missing.workout)
            /\ IF owned
               THEN /\ IsSome(lastRead.workout)
                    /\ Get(lastRead.workout).id = lastRead.workoutId
                    /\ Get(lastRead.workout).userId = lastRead.session
                    /\ lastRead.page = "form"
               ELSE /\ lastRead.workout = missing.workout
                    /\ lastRead.thrown = missing.thrown
                    /\ lastRead.workoutData = Absent
                    /\ lastRead.page = "notFound"

\* The edit page was asked, by a signed-in user, for a stored workout of
\* another user.
C1_Witness ==
    /\ lastRead.op = "EditWorkoutPage"
    /\ lastRead.session \in Users
    /\ lastRead.page = "notFound"
    /\ \E w \in workouts : w.id = lastRead.workoutId /\ w.userId # lastRead.session
    /\ \E w \in workouts : w.userId = lastRead.session

----------------------------------------------------------------------------
(* C2 *)

C2_State ==
    /\ \A p \in Procs :
        (call[p].session = NoUser /\ call[p].pc # "idle") =>
            /\ call[p].pc \in {"parse", "auth", "returned"}
            /\ call[p].workout = Absent
            /\ call[p].pc = "returned" =>
                /\ Failed(call[p])
                /\ createWorkoutSchema(call[p].input) = <<>> =>
                        call[p].thrown = "Unauthorized"
    /\ (lastRead.op # "none" /\ lastRead.session = NoUser) =>
            /\ lastRead.thrown = "Unauthorized"
            /\ lastRead.rows = <<>>
            /\ lastRead.workout = Absent
            /\ lastRead.workoutData = Absent

C2_Step ==
    (\/ \E p \in Procs : call[p].session = NoUser /\ call[p].pc \notin {"idle", "returned"}
     \/ lastRead'.op # "none" /\ lastRead'.session = NoUser)
        => store' = store

\* C2: without a userId from auth(), createWorkout, getUserWorkoutsForDate
\* and getUserWorkoutById throw 'Unauthorized' before any store statement:
\* the call never reaches a store statement, no step of it changes the
\* store, and no row is returned.
C2_FailClosed == []C2_State /\ [][C2_Step]_vars

\* An unauthenticated create and an unauthenticated page request have both
\* been answered with 'Unauthorized' while the store holds rows.
C2_Witness ==
    /\ \E p \in Procs : call[p].pc = "returned" /\ call[p].thrown = "Unauthorized"
    /\ lastRead.op # "none"
    /\ lastRead.thrown = "Unauthorized"
    /\ workouts # {}

----------------------------------------------------------------------------
(* C3 *)

\* C3: getUserWorkoutsForDate(d) as user u returns exactly the workouts of u
\* with windowStart <= startedAt < windowEnd, each once.
C3_WindowResultSet ==
    (lastRead.op = "DashboardPage" /\ lastRead.session \in Users) =>
        LET d == lastRead.selectedDate
            expected == {w \in workouts : /\ w.userId = lastRead.session
                                          /\ startOfDay(d) <= w.startedAt
                                          /\ w.startedAt < endOfDay(d)}
        IN  /\ ReturnedIds = {w.id : w \in expected}
            /\ Len(lastRead.rows) = Cardinality(expected)
            /\ \A k \in 1..Len(lastRead.rows) :
                    lastRead.rows[k].userId = lastRead.session

\* A dashboard request returned a workout while the window also held a
\* workout of another user and the caller had a workout outside the window.
C3_Witness ==
    /\ lastRead.op = "DashboardPage"
    /\ lastRead.session \in Users
    /\ Len(lastRead.rows) >= 1
    /\ \E w \in workouts :
        /\ w.userId # lastRead.session
        /\ startOfDay(lastRead.selectedDate) <= w.startedAt
        /\ w.startedAt < endOfDay(lastRead.selectedDate)

----------------------------------------------------------------------------
(* C4 *)

\* C4: getUserWorkoutsForDate(d) returns a workout of the caller exactly
\* when its startedAt falls on the local calendar day of d, at any instant
\* from 00:00:00.000 through 23:59:59.999.
C4_WholeCalendarDay ==
    (lastRead.op = "DashboardPage" /\ lastRead.session \in Users) =>
        \A w \in workouts :
            w.userId = lastRead.session =>
                (w.id \in ReturnedIds
                    <=> LocalDay(w.startedAt) = LocalDay(lastRead.selectedDate))

----------------------------------------------------------------------------
(* C5 *)

\* C5: when the createWorkout server action returns success: false, the
\* store holds no Workout, WorkoutExercise or Set row written by that call.
C5_CreateIsAtomic ==
    \A p \in Procs :
        (Failed(call[p]) /\ IsSome(call[p].workout)) =>
            /\ ~\E w \in workouts : w.id = Get(call[p].workout)
            /\ ~\E we \in workoutExercises : we.workoutId = Get(call[p].workout)

----------------------------------------------------------------------------
(* C6 *)

\* C6: with createWorkout calls running one after another, the catalog
\* holds exactly one row per exercise name referenced, and every
\* WorkoutExercise created for a name references that row.
C6_CatalogDeduplicated ==
    /\ \A e1, e2 \in exercises : e1.name = e2.name => e1 = e2
    /\ \A we \in workoutExercises :
            Cardinality({e \in exercises : e.id = we.exerciseId}) = 1
    /\ \A p \in Procs :
        IsSome(call[p].workout) =>
            \A k \in 1..Len(call[p].input.exercises) :
                \A we \in workoutExercises :
                    (we.workoutId = Get(call[p].workout) /\ we.order = k - 1) =>
                        LET named == {e \in exercises :
                                        e.name = call[p].input.exercises[k].name}
                        IN  /\ Cardinality(named) = 1
                            /\ \A e \in named : we.exerciseId = e.id

\* Two successful calls: one exercise row is referenced from two workouts
\* and twice from one workout.
C6_Witness ==
    /\ \A p \in SeqProcs : Succeeded(call[p])
    /\ Cardinality(workouts) = 2
    /\ \E a, b \in workoutExercises :
            a.workoutId # b.workoutId /\ a.exerciseId = b.exerciseId
    /\ \E a, b \in workoutExercises :
            a.id # b.id /\ a.workoutId = b.workoutId /\ a.exerciseId = b.exerciseId

----------------------------------------------------------------------------
(* C7 *)

\* The rows the call of process p wrote for its k-th exercise spec.
RowsOfSpec(p, k) ==
    {we \in workoutExercises :
        we.workoutId = Get(call[p].workout) /\ we.order = k - 1}

\* C7: after a successful createWorkout with n exercise specs the workout
\* has n WorkoutExercise rows with order 0..n-1, the row with order i
\* references the catalog row named like the i-th spec and has one Set row
\* per supplied set, numbered 1..m, the set numbered j holding the weight
\* and reps of the j-th supplied set.
C7_PositionsAndValues ==
    \A p \in Procs :
        Succeeded(call[p]) =>
            LET specs == call[p].input.exercises
                wId   == Get(call[p].workout)
            IN  /\ Cardinality({we \in workoutExercises : we.workoutId = wId})
                        = Len(specs)
                /\ \A k \in 1..Len(specs) :
                    /\ Cardinality(RowsOfSpec(p, k)) = 1
                    /\ \A we \in RowsOfSpec(p, k) :
                        LET rows == {s \in sets : s.workoutExerciseId = we.id}
                        IN  /\ \E e \in exercises : /\ e.id = we.exerciseId
                                                    /\ e.name = specs[k].name
                            /\ Cardinality(rows) = Len(specs[k].sets)
                            /\ \A j \in 1..Len(specs[k].sets) :
                                \E s \in rows :
                                    /\ s.setNumber = j
                                    /\ s.reps = specs[k].sets[j].reps
                                    /\ IsSome(s.weight) = IsSome(specs[k].sets[j].weight)
                                    /\ IsSome(s.weight) =>
                                        ParseFloatColumn(Get(s.weight))
                                            = Get(specs[k].sets[j].weight)

----------------------------------------------------------------------------
(* C8 *)

\* The hydrated workout h lists the exercises and sets of input in the order
\* they were supplied, as far as its creation got.
InSuppliedOrder(h, input) ==
    /\ Len(h.workoutExercises) <= Len(input.exercises)
    /\ \A k \in 1..Len(h.workoutExercises) :
        LET we   == h.workoutExercises[k]
            spec == input.exercises[k]
        IN  /\ we.order = k - 1
            /\ we.exercise.name = spec.name
            /\ Len(we.sets) \in {0, Len(spec.sets)}
            /\ \A j \in 1..Len(we.sets) :
                /\ we.sets[j].setNumber = j
                /\ we.sets[j].reps = spec.sets[j].reps
                /\ we.sets[j].weight =
                        IF IsSome(spec.sets[j].weight)
                        THEN Some(WeightToColumn(Get(spec.sets[j].weight)))
                        ELSE Absent

\* C8: getUserWorkoutsForDate and getUserWorkoutById return the exercises of
\* a workout in the order they were supplied (ascending order) and the sets
\* of each exercise in the order they were supplied (ascending setNumber),
\* whatever other workouts were created in between.
C8_OrderingOnRetrieval ==
    \A h \in ReadWorkouts :
        /\ InSuppliedOrder(h, InputOf(h))
        /\ (\E p \in Procs : Succeeded(call[p]) /\ Get(call[p].workout) = h.id) =>
                /\ Len(h.workoutExercises) = Len(InputOf(h).exercises)
                /\ \A k \in 1..Len(h.workoutExercises) :
                        Len(h.workoutExercises[k].sets)
                            = Len(InputOf(h).exercises[k].sets)

\* The dashboard returned two workouts with two exercises each, the first
\* created of them with a two-set exercise, both fully created.
C8_Witness ==
    /\ lastRead.op = "DashboardPage"
    /\ Len(lastRead.rows) = 2
    /\ \A k \in 1..2 :
        /\ Len(lastRead.rows[k].workoutExercises) = 2
        /\ \A n \in 1..2 : Len(lastRead.rows[k].workoutExercises[n].sets) >= 1
    /\ \E k \in 1..2 :
        /\ lastRead.rows[k].id = 1
        /\ Len(lastRead.rows[k].workoutExercises[2].sets) = 2

\* The edit page returned the workout created first, after a second workout
\* was created: two exercises, the second with two sets.
C8_WitnessById ==
    /\ lastRead.op = "EditWorkoutPage"
    /\ IsSome(lastRead.workout)
    /\ Get(lastRead.workout).id = 1
    /\ Cardinality(workouts) = 2
    /\ Len(Get(lastRead.workout).workoutExercises) = 2
    /\ Len(Get(lastRead.workout).workoutExercises[2].sets) = 2

----------------------------------------------------------------------------
(* C9 *)

\* C9: a workout created from a valid edit document and read back by id
\* maps to an edit document equal to it in name, startedAt, the exercise
\* names and the (weight, reps) pairs of every exercise.
C9_EditDocumentRoundTrip ==
    \A p \in Procs :
        (/\ Succeeded(call[p])
         /\ lastRead.op = "EditWorkoutPage"
         /\ lastRead.session = call[p].session
         /\ lastRead.workoutId = Get(call[p].workout)) =>
            /\ IsSome(lastRead.workoutData)
            /\ Get(lastRead.workoutData).name = call[p].input.name
            /\ Get(lastRead.workoutData).startedAt = call[p].input.startedAt
            /\ Get(lastRead.workoutData).exercises = call[p].input.exercises

----------------------------------------------------------------------------
(* C10 *)

\* C10: with date parameter s the dashboard queries the window of the local
\* calendar day s: a workout of the caller started at 08:00 local time on
\* day s is returned, one started at 08:00 local time the day before is not.
C10_DateParamSelectsLocalDay ==
    (lastRead.op = "DashboardPage" /\ IsSome(lastRead.dateParam)
        /\ lastRead.session \in Users) =>
        LET s == Get(lastRead.dateParam)
        IN  \A w \in workouts :
                w.userId = lastRead.session =>
                    /\ w.startedAt = LocalDateTime(s, EightAm) => w.id \in ReturnedIds
                    /\ w.startedAt = LocalDateTime(s, EightAm) - MsPerDay =>
                            w.id \notin ReturnedIds

----------------------------------------------------------------------------
(* C14 *)

\* C14: the sequence getUserWorkoutsForDate returns is sorted by startedAt
\* descending, whatever the order the workouts were created in.
C14_NewestFirst ==
    lastRead.op = "DashboardPage" =>
        \A k \in 1..(Len(lastRead.rows) - 1) :
            lastRead.rows[k].startedAt >= lastRead.rows[k + 1].startedAt

\* The dashboard returned two workouts of different start times, the one
\* created first started later.
C14_Witness ==
    /\ lastRead.op = "DashboardPage"
    /\ Len(lastRead.rows) = 2
    /\ lastRead.rows[1].startedAt > lastRead.rows[2].startedAt
    /\ lastRead.rows[1].id < lastRead.rows[2].id

----------------------------------------------------------------------------
(* C19 *)

\* The dashboard requested on each day of a window of calendar days around
\* the model epoch (2025-08-08 .. 2025-09-21: every day of month 1..31).
CalendarDays == 22

CalendarNows ==
    {d * MsPerDay + ms : d \in (0 - CalendarDays)..CalendarDays, ms \in {0, LastMs}}

CalendarDateParams ==
    {CivilFromDays(EpochDay + d) : d \in (0 - CalendarDays)..CalendarDays}

NextCalendar ==
    \/ \E session \in Sessions, now \in CalendarNows :
            DashboardPage(session, Absent, now)
    \/ \E session \in Sessions, d \in CalendarDateParams :
            DashboardPage(session, Some(d), 0)

SpecCalendar == Init /\ [][NextCalendar]_vars

\* The suffix of day n as the claim words it.
OrdinalOf(n) ==
    IF n \in {1, 21, 31} THEN "st"
    ELSE IF n \in {2, 22} THEN "nd"
    ELSE IF n \in {3, 23} THEN "rd"
    ELSE "th"

\* C19: for a date whose local day of month is n, formatDate returns
\* "<n><suffix> <short month> <full year>", the suffix being st for 1, 21, 31,
\* nd for 2, 22, rd for 3, 23 and th for every other day, 11, 12, 13 included.
C19_OrdinalDateFormat ==
    (lastRead.op = "DashboardPage" /\ lastRead.page = "list") =>
        LET c == LocalCivil(lastRead.selectedDate)
        IN  /\ c.day \in 1..31
            /\ lastRead.heading =
                 Some(<<c.day, OrdinalOf(c.day), " ", MonthShort(c.month), " ", c.year>>)

\* The heading of the dashboard of 11 September 2025.
C19_Witness ==
    /\ lastRead.op = "DashboardPage"
    /\ lastRead.heading = Some(<<11, "th", " ", "Sep", " ", 2025>>)

----------------------------------------------------------------------------
(* C11 *)

\* The schema of the action a call belongs to rejects the call's input.
Rejects(c) ==
    IF c.action = "updateWorkout" THEN updateWorkoutSchema(c.input) # <<>>
    ELSE createWorkoutSchema(c.input) # <<>>

InFlight(c) == c.pc \notin {"idle", "returned"}

C11_State ==
    \A p \in Procs :
        (call[p].pc # "idle" /\ Rejects(call[p])) =>
            /\ call[p].pc \in {"parse", "parseUpdate", "returned"}
            /\ call[p].workout = Absent
            /\ call[p].pc = "returned" =>
                    /\ Failed(call[p])
                    /\ call[p].thrown = "ZodError"

C11_Step ==
    (\E p \in Procs : InFlight(call[p]) /\ Rejects(call[p])) => UNCHANGED store

\* C11: a createWorkout or updateWorkout action whose schema rejects the
\* input never reaches its data helper (no identity check, no store
\* statement), leaves the store unchanged and returns success: false.
C11_ValidationShortCircuits == []C11_State /\ [][C11_Step]_vars

\* An update the schema rejected has returned while a workout is stored.
C11_Witness ==
    \E p \in Procs :
        /\ call[p].action = "updateWorkout"
        /\ Rejects(call[p])
        /\ Failed(call[p])
        /\ workouts # {}

----------------------------------------------------------------------------
(* C12 *)

\* The validation rules as the claim lists them.
ExerciseAcceptable(ex) ==
    /\ StrLen(ex.name) >= 1
    /\ Len(ex.sets) >= 1
    /\ \A j \in 1..Len(ex.sets) :
        /\ IsSome(ex.sets[j].weight) => Get(ex.sets[j].weight) > 0
        /\ IsSome(ex.sets[j].reps) => Get(ex.sets[j].reps) > 0

Acceptable(input) ==
    /\ StrLen(input.name) \in 1..100
    /\ input.startedAt # InvalidDate
    /\ Len(input.exercises) >= 1
    /\ \A k \in 1..Len(input.exercises) : ExerciseAcceptable(input.exercises[k])

\* The message of the first check an unacceptable input fails, in the order
\* name, startedAt, exercise list, then exercise by exercise: its name, its
\* set list, its numbers.
FirstFailingMessage(input) ==
    IF StrLen(input.name) < 1 THEN "Workout name is required"
    ELSE IF StrLen(input.name) > 100
         THEN "String must contain at most 100 character(s)"
    ELSE IF input.startedAt = InvalidDate THEN "Invalid date"
    ELSE IF Len(input.exercises) < 1 THEN "At least one exercise is required"
    ELSE LET bad == {k \in 1..Len(input.exercises) :
                        ~ExerciseAcceptable(input.exercises[k])}
             k   == CHOOSE i \in bad : \A j \in bad : i <= j
             ex  == input.exercises[k]
         IN  IF StrLen(ex.name) < 1 THEN "Exercise name is required"
             ELSE IF Len(ex.sets) < 1 THEN "At least one set is required"
             ELSE "Number must be greater than 0"

----------------------------------------------------------------------------
(* C13 *)

NotFoundError == "Workout not found or unauthorized"

\* The workout an update call names is stored and belongs to the caller.
OwnsTarget(c) ==
    \E w \in workouts : w.id = c.input.id /\ w.userId = c.session

\* An update call of a signed-in user whose input the schema accepted.
AuthorizedUpdate(c) ==
    c.action = "updateWorkout" /\ c.session \in Users /\ ~Rejects(c)

C13_State ==
    \A p \in Procs :
        (AuthorizedUpdate(call[p]) /\ ~OwnsTarget(call[p])) =>
            /\ call[p].pc \in {"parseUpdate", "authUpdate", "verifyOwnership", "returned"}
            /\ call[p].workout = Absent
            /\ (call[p].pc = "returned" /\ call[p].thrown \notin StoreErrors) =>
                    /\ call[p].thrown = NotFoundError
                    /\ call[p].result = Failure(GenericUpdateError)

C13_Step ==
    \A p \in Procs :
        (InFlight(call[p]) /\ call[p].action = "updateWorkout") =>
            /\ ~OwnsTarget(call[p]) => UNCHANGED store
            /\ \A w \in workouts : w.id # call[p].input.id => w \in workouts'

\* C13: an update changes the store only when the workout it names exists
\* and belongs to the signed-in caller; for a missing workout and for another
\* user's workout alike it fails with the same not-found error and the same
\* result, and no table changes.
C13_UpdateVerifiesOwnership == []C13_State /\ [][C13_Step]_vars

\* A signed-in user's update of another user's stored workout has returned
\* not-found.
C13_Witness ==
    \E p \in Procs :
        /\ AuthorizedUpdate(call[p])
        /\ call[p].pc = "returned"
        /\ call[p].thrown = NotFoundError
        /\ \E w \in workouts : w.id = call[p].input.id /\ w.userId # call[p].session

----------------------------------------------------------------------------
(* C15 *)

GenericErrorOf(c) ==
    IF c.action = "updateWorkout" THEN GenericUpdateError ELSE GenericCreateError

\* The messages the two schemas define or inherit from Zod.
SchemaMessages ==
    {"Workout name is required", "String must contain at most 100 character(s)",
     "Invalid date", "At least one exercise is required", "Exercise name is required",
     "At least one set is required", "Number must be greater than 0", "Invalid uuid"}

\* C15: whatever the data helper or the store throws, the client gets the
\* fixed generic message of the action, the same for every store error; the
\* only other error strings are messages of the action's schema.
C15_StoreFailuresOpaque ==
    \A p \in Procs :
        Failed(call[p]) =>
            LET error == Get(call[p].result).error
            IN  /\ error \notin StoreErrors
                /\ IF call[p].thrown = "ZodError"
                   THEN error \in SchemaMessages
                   ELSE error = GenericErrorOf(call[p])

\* A createWorkout call whose store statement failed with a deadlock, after
\* its workout row was written, has returned.
C15_Witness ==
    \E p \in Procs :
        /\ Failed(call[p])
        /\ call[p].action = "createWorkout"
        /\ call[p].thrown = "deadlock detected"
        /\ IsSome(call[p].workout)

----------------------------------------------------------------------------
(* C16 *)

\* C16: a createWorkout or updateWorkout action requested without a signed-in
\* user answers its caller with an Unauthorized outcome: the error it returns
\* is the helper's 'Unauthorized', not the generic message a store failure
\* gets.
C16_UnauthorizedSurfacedAsIs ==
    \A p \in Procs :
        (Failed(call[p]) /\ call[p].thrown = "Unauthorized") =>
            /\ Get(call[p].result).error = "Unauthorized"
            /\ Get(call[p].result).error # GenericErrorOf(call[p])

----------------------------------------------------------------------------
(* C17 *)

\* The next statement of call p, when none fails.
CallStep(p) ==
    \/ Parse(p) \/ Auth(p) \/ InsertWorkout(p) \/ FindExercise(p)
    \/ InsertExercise(p) \/ InsertWorkoutExercise(p) \/ InsertSets(p)
    \/ Revalidate(p) \/ ReturnSuccess(p)
    \/ ParseUpdate(p) \/ AuthUpdate(p) \/ VerifyOwnership(p) \/ ReplaceAggregate(p)
    \/ RevalidateDashboard(p) \/ RevalidateDetail(p) \/ ReturnSuccessUpdate(p)

\* The two shapes of ActionResult.
IsActionResult(r) ==
    \/ r.success /\ IsSome(r.id) /\ r.error = ""
    \/ ~r.success /\ r.id = Absent /\ r.error # ""

C17_State ==
    \A p \in Procs :
        /\ InFlight(call[p]) =>
            /\ call[p].result = Absent
            /\ call[p].thrown = ""
            /\ ENABLED CallStep(p)
        /\ call[p].pc = "returned" =>
            /\ IsSome(call[p].result)
            /\ IsActionResult(Get(call[p].result))
            /\ Get(call[p].result).success <=> call[p].thrown = ""
        /\ Succeeded(call[p]) =>
            /\ Get(call[p].result).id = call[p].workout
            /\ \E w \in workouts :
                /\ w.id = Get(Get(call[p].result).id)
                /\ w.userId = call[p].session
                /\ w.name = call[p].input.name
                /\ w.startedAt = call[p].input.startedAt

C17_Step ==
    \A p \in Procs :
        call[p].pc = "returned" =>
            \/ call'[p] = call[p]
            \/ call'[p].pc \in {"parse", "parseUpdate"}

\* C17: every invocation of either action, whatever is thrown inside it,
\* ends by returning one ActionResult, success with an id or failure with an
\* error, and never rejects or stays without a next step; a success carries
\* the id of the workout row this call wrote.
C17_ErrorsAsValues == []C17_State /\ [][C17_Step]_vars

\* An updateWorkout call whose revalidatePath threw after the store was
\* changed has returned.
C17_Witness ==
    \E p \in Procs :
        /\ call[p].action = "updateWorkout"
        /\ call[p].thrown = "revalidatePath failed"
        /\ Failed(call[p])
        /\ DashboardPath \in call[p].revalidated

----------------------------------------------------------------------------
(* C18 *)

\* The paths an action revalidates before it returns success.
PathsToRevalidate(c) ==
    IF c.action = "updateWorkout"
    THEN {DashboardPath, DetailPath(c.input.id)}
    ELSE {DashboardPath}

\* Positions after the last revalidatePath call of a run that has not failed.
AfterRevalidation(c) == c.pc \in {"return", "returnUpdate"} \/ Succeeded(c)

C18_State ==
    \A p \in Procs :
        /\ AfterRevalidation(call[p]) => call[p].revalidated = PathsToRevalidate(call[p])
        /\ call[p].revalidated # {} =>
            /\ ~Rejects(call[p])
            /\ IsSome(call[p].workout)
            /\ call[p].thrown \in {"", "revalidatePath failed"}
            /\ call[p].pc \in {"revalidateDetail", "return", "returnUpdate", "returned"}
            /\ call[p].revalidated \subseteq PathsToRevalidate(call[p])

C18_Step ==
    \A p \in Procs :
        /\ (InFlight(call[p]) /\ store' # store) =>
                /\ call[p].pc \in StorePcs \cup UpdateStorePcs
                /\ call'[p].revalidated = {}
        /\ (InFlight(call[p]) /\ call'[p].revalidated # call[p].revalidated) =>
                /\ call[p].pc \in RevalidatePcs
                /\ store' = store
                /\ call'[p].result = Absent

\* C18: a run of an action validates, calls the data helper, revalidates and
\* returns, in that order: success is returned only after '/dashboard' (and,
\* for update, the workout's detail path) has been revalidated, every store
\* statement comes before the first revalidation, and a run whose validation
\* or data helper failed revalidates nothing.
C18_RevalidationFollowsMutation == []C18_State /\ [][C18_Step]_vars

\* An updateWorkout call has returned success after revalidating both paths.
C18_Witness ==
    \E p \in Procs :
        /\ call[p].action = "updateWorkout"
        /\ Succeeded(call[p])
        /\ call[p].revalidated = {DashboardPath, DetailPath(Get(Get(call[p].result).id))}

----------------------------------------------------------------------------
(* C20 *)

\* C20: when createWorkout calls that name the same unknown exercise run
\* concurrently, whatever the interleaving of their store statements, the
\* catalog holds at most one row of that name once they have returned.
C20_OneCatalogRowPerName ==
    Quiescent =>
        \A e1 \in exercises, e2 \in exercises : e1.name = e2.name => e1.id = e2.id

----------------------------------------------------------------------------
(* C21 *)

\* A hydrated workout holds every exercise and every set of the input it was
\* created from.
WholeAggregate(h) ==
    LET input == InputOf(h)
    IN  /\ Len(h.workoutExercises) = Len(input.exercises)
        /\ \A k \in 1..Len(h.workoutExercises) :
                Len(h.workoutExercises[k].sets) = Len(input.exercises[k].sets)

\* C21: a read of the owner that runs while createWorkout is writing either
\* does not contain the new workout or contains it with all of its supplied
\* exercises and all of their sets.
C21_NoPartialAggregateRead ==
    (lastRead.op # "none" /\ failures = 0) =>
        \A h \in ReadWorkouts : WholeAggregate(h)

----------------------------------------------------------------------------
(* C22 *)

C22_Step ==
    \A after \in workouts' :
        /\ (\A before \in workouts : before.id # after.id) =>
                after.completedAt = Absent
        /\ \A before \in workouts :
                (before.id = after.id /\ IsSome(before.completedAt)) =>
                    IsSome(after.completedAt)

\* C22: a workout is created with completedAt null, and no accepted create or
\* update request takes a workout whose completedAt is set back to
\* completedAt null.
C22_CompletedStaysCompleted == [][C22_Step]_vars

----------------------------------------------------------------------------
(* C23 *)

\* The last page request, asked again now, gets the answer it got.
C23_State ==
    /\ lastRead.op = "EditWorkoutPage" =>
        LET r == getUserWorkoutById(lastRead.session, lastRead.workoutId)
        IN  lastRead.thrown = r.thrown /\ lastRead.workout = r.workout
    /\ lastRead.op = "DashboardPage" =>
        LET r == getUserWorkoutsForDate(lastRead.session, lastRead.selectedDate)
        IN  lastRead.thrown = r.thrown /\ lastRead.rows = r.rows

\* A step that serves a page request changes no table.
C23_Step == (lastRead'.op # "none" /\ lastRead' # lastRead) => UNCHANGED store

----------------------------------------------------------------------------
(* C24 *)

\* The Set rows the call of process p wrote for set j of its k-th exercise.
SetRowsOfSpec(p, k, j) ==
    {s \in sets : /\ s.setNumber = j
                  /\ \E we \in RowsOfSpec(p, k) : s.workoutExerciseId = we.id}

\* C24: for every set supplied to a createWorkout call that succeeded, the
\* stored row has weight null exactly when no weight was supplied and reps
\* null exactly when no reps was supplied, each independently of the other;
\* the schema accepts a set with only reps, only weight, both or neither.
C24_WeightAndRepsIndependentlyOptional ==
    \A p \in Procs :
        /\ (call[p].action = "createWorkout" /\ call[p].pc # "idle") =>
                \A k \in 1..Len(call[p].input.exercises) :
                    \A j \in 1..Len(call[p].input.exercises[k].sets) :
                        LET set == call[p].input.exercises[k].sets[j]
                        IN  (/\ IsSome(set.weight) => Get(set.weight) > 0
                             /\ IsSome(set.reps) => Get(set.reps) > 0)
                                => SetIssues(set) = <<>>
        /\ Succeeded(call[p]) =>
                \A k \in 1..Len(call[p].input.exercises) :
                    \A j \in 1..Len(call[p].input.exercises[k].sets) :
                        LET set == call[p].input.exercises[k].sets[j]
                        IN  /\ SetRowsOfSpec(p, k, j) # {}
                            /\ \A s \in SetRowsOfSpec(p, k, j) :
                                /\ s.weight = Absent <=> set.weight = Absent
                                /\ s.reps = Absent <=> set.reps = Absent

\* A successful call has stored a set with a weight and no reps, and a set
\* with reps and no weight.
C24_Witness ==
    \E p \in Procs :
        /\ Succeeded(call[p])
        /\ \E s \in SetRowsOfSpec(p, 1, 1) : IsSome(s.weight) /\ s.reps = Absent
        /\ \E s \in SetRowsOfSpec(p, 2, 1) : s.weight = Absent /\ IsSome(s.reps)

----------------------------------------------------------------------------
\* The browser leaves a form for the dashboard in this step.
Navigated == FormShown /\ form'.page = "dashboard"

\* The submit the form was waiting on ends in this step.
SubmitEnds == form.awaiting /\ ~form'.awaiting

\* The action the form is waiting on has returned success: true.
ResolvedWithSuccess ==
    \E p \in SeqProcs : ActionResolved(p) /\ Get(call[p].result).success

\* C25: Client navigation follows the action result. While a submit is in
\* flight isLoading is true and the submit button is disabled.
C25_State == form.awaiting => (form.isLoading /\ SubmitDisabled)

\* C25 (steps): in the new form and in the edit form alike, a navigation to
\* the dashboard caused by a submit happens only once the action has returned
\* success: true; when the action returned success: false, or the awaited call
\* threw, the form stays where it is, shows a non-null error, and isLoading is
\* false again.
C25_Step ==
    /\ (Navigated /\ form'.navigatedBy = "submit") => ResolvedWithSuccess
    /\ (SubmitEnds /\ ~ResolvedWithSuccess) => ~Navigated
    /\ (SubmitEnds /\ ~Navigated) =>
            /\ form'.page = form.page
            /\ IsSome(form'.error)
            /\ Get(form'.error) # ""
            /\ ~form'.isLoading

C25_NavigationFollowsResult == []C25_State /\ [][C25_Step]_vars

\* A workout created through the new form (its submit navigated), then an
\* edit-form submit the action answered with success: false: the edit form is
\* still shown, with the action's error and isLoading false.
C25_Witness ==
    /\ form.page = "edit"
    /\ form.error = Some(GenericUpdateError)
    /\ ~form.isLoading
    /\ \E p \in SeqProcs : Failed(call[p]) /\ call[p].action = "updateWorkout"

----------------------------------------------------------------------------
\* At least one exercise, and at least one set in every exercise.
StructurallyNonEmpty(exs) ==
    /\ Len(exs) >= 1
    /\ \A k \in 1..Len(exs) : Len(exs[k].sets) >= 1

\* C29: The form never becomes structurally empty. The new form starts with
\* one exercise that has one set.
C29_State == form.page = "new" => StructurallyNonEmpty(form.exercises)

\* C29 (steps): in both forms, a form that holds at least one exercise, each
\* with at least one set, still does after Add Exercise, Remove exercise, Add
\* Set and Remove set; an exercise is removed only when more than one remains.
C29_Step ==
    (FormShown /\ form'.page = form.page) =>
        /\ StructurallyNonEmpty(form.exercises) => StructurallyNonEmpty(form'.exercises)
        /\ Len(form'.exercises) < Len(form.exercises) => Len(form.exercises) > 1

C29_FormNeverStructurallyEmpty == []C29_State /\ [][C29_Step]_vars

\* The edit form of a stored workout with two exercises, after Remove
\* exercise and Add Set: one exercise left, with two sets.
C29_Witness ==
    /\ form.page = "edit"
    /\ Cardinality({we \in workoutExercises : we.workoutId = form.workoutId}) = 2
    /\ \A we \in workoutExercises :
            Cardinality({st \in sets : st.workoutExerciseId = we.id}) = 1
    /\ Len(form.exercises) = 1
    /\ Len(form.exercises[1].sets) = 2

----------------------------------------------------------------------------
\* C26: Referential integrity in every reachable state: after any sequence
\* of createWorkout calls, also ones that fail at any statement, every
\* WorkoutExercise row references an existing Workout row and an existing
\* Exercise row, and every Set row references an existing WorkoutExercise row.
C26_ReferentialIntegrity ==
    /\ \A we \in workoutExercises :
            /\ \E w \in workouts : w.id = we.workoutId
            /\ \E e \in exercises : e.id = we.exerciseId
    /\ \A st \in sets : \E we \in workoutExercises : we.id = st.workoutExerciseId

\* A createWorkout call the store failed at the insert of the sets: its
\* workout and a link row are stored, the link row has no sets.
C26_Witness ==
    \E p \in SeqProcs :
        /\ Failed(call[p])
        /\ call[p].action = "createWorkout"
        /\ call[p].thrown \in StoreErrors
        /\ \E we \in workoutExercises :
                /\ we.workoutId = Get(call[p].workout)
                /\ \A st \in sets : st.workoutExerciseId # we.id

----------------------------------------------------------------------------
\* The createWorkout call of process p is running.
CreateRunning(p) == call[p].action = "createWorkout" /\ InFlight(call[p])

\* C27: Owner and initial state of a created workout: every Workout row a
\* createWorkout call inserts has userId equal to the identity the session
\* gave that call, which is a signed-in user, and completedAt null, whatever
\* the input holds.
C27_Step ==
    \A p \in SeqProcs :
        CreateRunning(p) =>
            \A w \in workouts' \ workouts :
                /\ w.userId = call[p].session
                /\ w.userId \in Users
                /\ w.completedAt = Absent

C27_OwnerAndInitialState == [][C27_Step]_vars

\* user_B's call has succeeded: its workout is stored under user_B, not
\* completed.
C27_Witness ==
    \E p \in SeqProcs :
        /\ Succeeded(call[p])
        /\ call[p].action = "createWorkout"
        /\ call[p].session = "user_B"
        /\ \E w \in workouts :
                /\ w.id = Get(call[p].workout)
                /\ w.userId = "user_B"
                /\ w.completedAt = Absent

----------------------------------------------------------------------------
\* C28: createWorkout only appends: every step of a createWorkout call,
\* up to its success or its failure, leaves every row of the four tables
\* that existed before the step present and unchanged, other users' rows
\* among them, and adds no catalog row for a name that already has one.
C28_Step ==
    \A p \in SeqProcs :
        CreateRunning(p) =>
            /\ workouts \subseteq workouts'
            /\ workoutExercises \subseteq workoutExercises'
            /\ sets \subseteq sets'
            /\ exercises \subseteq exercises'
            /\ \A e \in exercises' \ exercises :
                    /\ call[p].pc = "insertExercise"
                    /\ call[p].exercise = Absent
                    /\ \A old \in exercises : old.name # e.name

C28_CreateOnlyAppends == [][C28_Step]_vars

\* user_B's call has succeeded after user_A's: user_A's workout is still
\* stored with its rows, and the two workouts share a catalog row.
C28_Witness ==
    /\ calls = 2
    /\ \E p \in SeqProcs :
            /\ Succeeded(call[p])
            /\ call[p].action = "createWorkout"
            /\ call[p].session = "user_B"
    /\ \E wa, wb \in workouts :
            /\ wa.userId = "user_A"
            /\ wb.userId = "user_B"
            /\ \E a, b \in workoutExercises :
                    /\ a.workoutId = wa.id
                    /\ b.workoutId = wb.id
                    /\ a.exerciseId = b.exerciseId
                    /\ \E st \in sets : st.workoutExerciseId = a.id

----------------------------------------------------------------------------
\* A user picks days in the date selector and the dashboard is loaded with
\* the URL written, in every time zone.
NextSelector ==
    \/ \E d \in CalendarDateParams : SelectDate(d)
    \/ \E session \in Users : FollowUrl(session)

SpecSelector == Init /\ [][NextSelector]_vars

\* The zero-padded YYYY-MM-DD of calendar date d.
IsoOf(d) ==
    <<DigitChar(d.year \div 1000), DigitChar((d.year \div 100) % 10),
      DigitChar((d.year \div 10) % 10), DigitChar(d.year % 10), "-",
      DigitChar(d.month \div 10), DigitChar(d.month % 10), "-",
      DigitChar(d.day \div 10), DigitChar(d.day % 10)>>

\* Calendar date d as formatDate displays it.
DisplayOf(d) == <<d.day, OrdinalOf(d.day), " ", MonthShort(d.month), " ", d.year>>

\* C30: Date selector round trip: for every calendar date D picked and every
\* UTC offset, the string written to the URL is the zero-padded YYYY-MM-DD of
\* D, and the dashboard loaded with that string shows D, formatted by
\* formatDate, in the selector button and in the heading.
C30_DateSelectorRoundTrip ==
    IsSome(form.picked) =>
        LET D == Get(form.picked)
        IN  /\ form.url = Some(IsoOf(D))
            /\ (lastRead.op = "DashboardPage" /\ lastRead.page = "list"
                    /\ lastRead.dateParam = Some(D)) =>
                    /\ lastRead.heading = Some(DisplayOf(D))
                    /\ lastRead.selector = Some(DisplayOf(D))

====
